---- MODULE Spec2Model ----
(***************************************************************************)
(* virthelper: VM state normalization, cluster identity and per-instance   *)
(* address planning of the vmbuilder wrapper (vmbuilder.py, vmtypes.py,    *)
(* ubuntu_cloud.py, coreos.py, proxmox_ubuntu_cloud.py).                   *)
(*                                                                         *)
(* Text is modelled as a sequence of tokens, concatenation as \o, so that  *)
(* formatting ("%s.%s", "%s%d", os.path.join, .exploded) is a conversion   *)
(* and not the identity.                                                   *)
(***************************************************************************)
EXTENDS Integers, Sequences, FiniteSets, TLC

\* ------------------------------------------------------------------ bounds
\* Largest --cluster_size explored.
MaxCluster == 2
\* Largest number of normalizeVMState invocations in one process.
MaxNormalize == 2
\* Largest number of guests the Proxmox cluster holds at start.
MaxPveVMs == 2
\* Host part of the largest address explored (addresses Net0 .. Net0+MaxAddr).
MaxAddr == 7
\* Largest number of planner/composer queries in one process.
MaxQueries == 2
\* Largest timeout_secs explored, in seconds.
MaxTimeout == 35
\* Longest a status request takes, in seconds.
MaxLatency == 1

\* Python's None.
None == <<"None">>

\* ------------------------------------------------------------------ text
Digits == <<"0", "1", "2", "3", "4", "5", "6", "7", "8", "9">>

\* "%d" % i
RECURSIVE DecStr(_)
DecStr(i) == IF i < 10 THEN <<Digits[i + 1]>>
             ELSE DecStr(i \div 10) \o <<Digits[(i % 10) + 1]>>

\* str.split(".")[0]: the tokens before the first "."
RECURSIVE SplitFirst(_)
SplitFirst(s) == IF s = <<>> \/ Head(s) = "." THEN <<>>
                 ELSE <<Head(s)>> \o SplitFirst(Tail(s))

\* args.host_name, args.domain_name, args.disk_pool_name's path
HostNameArg == <<"vm">>
DomainNameArg == <<"example", ".", "com">>
PoolPath == <<"/pool">>

\* The classes whose createVM / normalizeVMState is modelled: the VMBuilder
\* of vmbuilder.py, and the builds of vmtypes.VMBuilder.getBuild.
LibvirtBuilds == {"VMBuilder", "Debian", "Ubuntu", "UbuntuCloud", "CoreOS"}
Builds == LibvirtBuilds \cup {"ProxmoxUbuntuCloud"}

VARIABLES
    build,           \* class of the builder object
    dry_run,         \* args.dry_run
    deleteifexists,  \* args.deleteifexists
    cluster_size,    \* args.cluster_size
    ip_address,      \* args.ip_address: None or address text
    netmask,         \* args.netmask: None or dotted-quad mask
    gateway,         \* args.gateway: None or address text
    nameserver,      \* args.nameserver: None or a list of address texts
    cluster_index,   \* VMBuilder.cluster_index
    vm_hostname,     \* VMBuilder.vm_hostname
    defined,         \* libvirt: names of defined domains
    active,          \* libvirt: names of running domains
    volumes,         \* libvirt: volume names in the disk pool
    paths,           \* host file system: paths that exist
    snapshot_age,    \* CoreOS snapshot image: "absent", "fresh" or "stale"
    pve,             \* Proxmox cluster: the guests, in listing order
    allvminfo,       \* ProxmoxUbuntuCloud.allvminfo (the cached index)
    calls,           \* every mutating call issued so far, in order
    status,          \* "running", or how the process ended
    last,            \* the last operation invoked and what it observed
    result,          \* return value of the last query operation
    nops,            \* operations invoked so far
    run,             \* the process: command line given, position in main
    poll             \* checkTaskStatus: its position, the clock, the task polled

vars == <<build, dry_run, deleteifexists, cluster_size, ip_address, netmask,
          gateway, nameserver, cluster_index, vm_hostname, defined, active, volumes, paths,
          snapshot_age, pve, allvminfo, calls, status, last, result, nops, run, poll>>

argVars == <<build, dry_run, deleteifexists, cluster_size, ip_address, netmask,
            gateway, nameserver>>
worldVars == <<defined, active, volumes, paths, snapshot_age, pve, allvminfo>>

\* --------------------------------------------------------------- identity
\* Class attribute VMBuilder.cluster_index before createVM runs.
DefaultClusterIndex(b) == IF b = "VMBuilder" THEN 1 ELSE 0

ClusterIndices_short(b, size) == IF b = "VMBuilder" THEN 1..(size - 1) ELSE 0..(size - 2)

\* The indices createVM iterates over, in order.
ClusterIndices(b, size) == IF b = "VMBuilder" THEN 1..size ELSE 0..(size - 1)

\* Position (0 for the first) of the instance with index idx within the run.
InstanceOrdinal(b, idx) == IF b = "VMBuilder" THEN idx - 1 ELSE idx

setVmHostName_noindex(host_name, host_index, size) == host_name

setVmHostName(host_name, host_index, size) ==
    IF size = 1 THEN host_name
    ELSE SplitFirst(host_name) \o DecStr(host_index)

getVmName(hostname) == hostname \o <<".">> \o DomainNameArg

getVmDiskImageName(hostname) == getVmName(hostname) \o <<".qcow2">>

\* os.path.join(getDiskPoolPath(), getVmName())
getVmDirectory(hostname) == PoolPath \o <<"/">> \o getVmName(hostname)

\* os.path.join(getDiskPoolPath(), "coreos", getVmName())
getCloudConfigDir(hostname) ==
    PoolPath \o <<"/", "coreos", "/">> \o getVmName(hostname)

\* ------------------------------------------------- handler plumbing
\* A handler maps a run record r to a run record: the world it reads and
\* writes, the mutating calls it issued, what it logged, and how it ended
\* ("running": returned normally; anything else: the exception or exit that
\* left it).  A handler entered after an exception does nothing.
Log(r, tag) == [r EXCEPT !.logs = @ \cup {tag}]

Call(r, c, target) == [r EXCEPT !.calls = Append(@, [call |-> c, target |-> target])]

Raise(r, how) == [r EXCEPT !.status = how]

\* Sequencing and local binding: H applied to the value r0 evaluates to.
Then(r0, H(_)) == CHOOSE out \in {H(x) : x \in {r0}} : TRUE

\* self.args plus the identity createVM has set, as the handlers read them.
Args ==
    [build |-> build, dry_run |-> dry_run, deleteifexists |-> deleteifexists,
     cluster_size |-> cluster_size, ip_address |-> ip_address, netmask |-> netmask,
     gateway |-> gateway, nameserver |-> nameserver,
     cluster_index |-> cluster_index, hostname |-> vm_hostname]

\* ------------------------------------------------- vmtypes.VMBuilder
deleteVM_nostop(a, r) ==
    IF r.status # "running" THEN r
    ELSE IF a.dry_run THEN Log(r, "DRY RUN: VM would have been deleted")
    ELSE IF getVmName(a.hostname) \notin r.defined THEN Log(r, "VM does not already exist")
    ELSE LET n == getVmName(a.hostname)
         IN [Call(r, "undefine", n) EXCEPT !.defined = @ \ {n}, !.active = @ \ {n}]

\* logging.fatal only logs: the destroy and undefine below it still run.
deleteVM(a, r) ==
    IF r.status # "running" THEN r
    ELSE IF a.dry_run THEN Log(r, "DRY RUN: VM would have been deleted")
    ELSE IF getVmName(a.hostname) \notin r.defined THEN Log(r, "VM does not already exist")
    ELSE LET n == getVmName(a.hostname)
             r0 == IF ~a.deleteifexists
                   THEN Log(r, "FATAL: VM found, no --deleteifexists")
                   ELSE r
             r1 == IF n \in r0.active
                   THEN [Call(r0, "destroy", n) EXCEPT !.active = @ \ {n}]
                   ELSE r0
         IN [Call(r1, "undefine", n) EXCEPT !.defined = @ \ {n}]

deleteVMImage_nodry(a, r) ==
    IF r.status # "running" THEN r
    ELSE IF getVmDiskImageName(a.hostname) \notin r.volumes
         THEN Log(r, "VM image does not exist")
    ELSE IF ~a.deleteifexists
         THEN Raise(Log(r, "CRITICAL: image found, no --deleteifexists"), "exit1")
    ELSE LET v == getVmDiskImageName(a.hostname)
         IN [Call(r, "vol-delete", v) EXCEPT !.volumes = @ \ {v}]

deleteVMImage(a, r) ==
    IF r.status # "running" THEN r
    ELSE IF getVmDiskImageName(a.hostname) \notin r.volumes
         THEN Log(r, "VM image does not exist")
    ELSE IF a.dry_run THEN Log(r, "DRY RUN: Disk image not actually deleted")
    ELSE IF ~a.deleteifexists
         THEN Raise(Log(r, "CRITICAL: image found, no --deleteifexists"), "exit1")
    ELSE LET v == getVmDiskImageName(a.hostname)
         IN [Call(r, "vol-delete", v) EXCEPT !.volumes = @ \ {v}]

\* logging.fatal only logs: the rmtree below it still runs.
deleteVMDirectory(a, r) ==
    IF r.status # "running" THEN r
    ELSE IF a.dry_run THEN Log(r, "DRY RUN: Would have deleted VM data directory")
    ELSE IF getVmDirectory(a.hostname) \notin r.paths
         THEN Log(r, "VM data directory not found")
    ELSE LET d == getVmDirectory(a.hostname)
             r0 == IF ~a.deleteifexists
                   THEN Log(r, "FATAL: VM directory found, no --deleteifexists")
                   ELSE r
         IN [Call(r0, "rmtree", d) EXCEPT !.paths = @ \ {d}]

\* coreos.CoreOS.deleteVM after the inherited part: the cloud-config
\* directory of the instance.
coreos_configDir(a, r1) ==
    IF r1.status # "running" THEN r1
    ELSE IF getCloudConfigDir(a.hostname) \notin r1.paths THEN r1
    ELSE IF a.dry_run THEN Log(r1, "DRY RUN: Would have removed cloud config path")
    ELSE IF a.deleteifexists
         THEN [Call(r1, "rmtree", getCloudConfigDir(a.hostname))
                 EXCEPT !.paths = @ \ {getCloudConfigDir(a.hostname)}]
    ELSE Raise(Log(r1, "cloud config path found, no --deleteifexists"), "HandledException")

\* CoreOS.deleteVM: the inherited deleteVM, then the cloud-config directory.
coreos_deleteVM(a, r) ==
    LET dir(x) == coreos_configDir(a, x) IN Then(deleteVM(a, r), dir)

\* vmtypes.VMBuilder.normalizeVMState; self.deleteVM is bound late: CoreOS
\* overrides deleteVM, every other build inherits it.
base_normalizeVMState(a, r) ==
    LET image(x) == deleteVMImage(a, x)
    IN Then(IF a.build = "CoreOS" THEN coreos_deleteVM(a, r) ELSE deleteVM(a, r), image)

\* ------------------------------------------------- vmbuilder.VMBuilder
vmbuilder_deleteVM(a, r) ==
    IF r.status # "running" THEN r
    ELSE IF a.dry_run THEN Log(r, "DRY RUN: VM would have been deleted")
    ELSE IF getVmName(a.hostname) \notin r.defined THEN Log(r, "VM does not already exist")
    ELSE IF ~a.deleteifexists
         THEN Raise(Log(r, "ERROR: VM found, no --deleteifexists"), "HandledException")
    ELSE LET n == getVmName(a.hostname)
             r1 == IF n \in r.active
                   THEN [Call(r, "destroy", n) EXCEPT !.active = @ \ {n}]
                   ELSE r
         IN [Call(r1, "undefine", n) EXCEPT !.defined = @ \ {n}]

vmbuilder_deleteVMImage(a, r) ==
    IF r.status # "running" THEN r
    ELSE IF getVmDiskImageName(a.hostname) \notin r.volumes
         THEN Log(r, "VM image does not exist")
    ELSE IF a.dry_run THEN Log(r, "DRY RUN: Disk image not actually deleted")
    ELSE IF ~a.deleteifexists
         THEN Raise(Log(r, "ERROR: image found, no --deleteifexists"), "HandledException")
    ELSE LET v == getVmDiskImageName(a.hostname)
         IN [Call(r, "vol-delete", v) EXCEPT !.volumes = @ \ {v}]

vmbuilder_normalizeVMState(a, r) ==
    LET image(x) == vmbuilder_deleteVMImage(a, x) IN Then(vmbuilder_deleteVM(a, r), image)

\* ------------------------------------------------- addresses (ipaddress)
\* 10.0.0.0 as an integer; the addresses explored are Net0 .. Net0 + MaxAddr.
Net0 == 10 * 16777216

Pow2(n) == 2 ^ n

\* IPv4Address.exploded: the canonical dotted quad of an address value.
exploded(v) ==
    DecStr(v \div 16777216) \o <<".">> \o DecStr((v \div 65536) % 256) \o <<".">>
      \o DecStr((v \div 256) % 256) \o <<".">> \o DecStr(v % 256)

\* The same address written with a leading zero in its last octet: text that
\* denotes the address but is not what .exploded prints.
padded(v) ==
    DecStr(v \div 16777216) \o <<".">> \o DecStr((v \div 65536) % 256) \o <<".">>
      \o DecStr((v \div 256) % 256) \o <<".", "0">> \o DecStr(v % 256)

DigitVal(d) == CHOOSE i \in 0..9 : Digits[i + 1] = d

RECURSIVE DecVal(_)
DecVal(ds) == IF ds = <<>> THEN 0
              ELSE 10 * DecVal(SubSeq(ds, 1, Len(ds) - 1)) + DigitVal(ds[Len(ds)])

\* str.split("."): the fields between the "." tokens.
RECURSIVE SplitDots(_)
SplitDotsOf(s) ==
    IF \A i \in 1..Len(s) : s[i] # "." THEN <<s>>
    ELSE <<SplitFirst(s)>> \o SplitDots(SubSeq(s, Len(SplitFirst(s)) + 2, Len(s)))
SplitDots(s) == Then(s, SplitDotsOf)

\* ipaddress._parse_octet: decimal digits, at most three, no leading zero,
\* at most 255; -1 stands for AddressValueError.
ParseOctet(ds) ==
    IF ds = <<>> \/ Len(ds) > 3 THEN -1
    ELSE IF \E i \in 1..Len(ds) : \A d \in 1..10 : Digits[d] # ds[i] THEN -1
    ELSE IF Len(ds) > 1 /\ ds[1] = "0" THEN -1
    ELSE IF DecVal(ds) > 255 THEN -1
    ELSE DecVal(ds)

\* The four octets of the fields of a dotted quad, or <<>> when they are not
\* four valid octets.
OctetsOfFields(f) ==
    IF Len(f) # 4 THEN <<>>
    ELSE IF \E i \in 1..4 : ParseOctet(f[i]) = -1 THEN <<>>
    ELSE <<ParseOctet(f[1]), ParseOctet(f[2]), ParseOctet(f[3]), ParseOctet(f[4])>>

ParseOctets(text) == Then(SplitDots(text), OctetsOfFields)

ValueOfOctets(o) ==
    IF o = <<>> THEN -1
    ELSE o[1] * 16777216 + o[2] * 65536 + o[3] * 256 + o[4]

\* ipaddress.IPv4Address(text) as an integer, -1 for AddressValueError.
ParseIPv4(text) == Then(ParseOctets(text), ValueOfOctets)

\* Leading one bits of a mask octet, -1 when its ones are not leading.
OctetOnes(o) ==
    CASE o = 255 -> 8 [] o = 254 -> 7 [] o = 252 -> 6 [] o = 248 -> 5
      [] o = 240 -> 4 [] o = 224 -> 3 [] o = 192 -> 2 [] o = 128 -> 1
      [] o = 0 -> 0 [] OTHER -> -1

\* ipaddress._prefix_from_ip_string for a dotted-quad netmask: the number of
\* leading one bits, -1 for NetmaskValueError.
RECURSIVE PrefixOfOctets(_)
PrefixOfOctetsOf(o) ==
    IF o = <<>> THEN 0
    ELSE IF OctetOnes(Head(o)) = -1 THEN -1
    ELSE IF Head(o) = 255
         THEN (IF PrefixOfOctets(Tail(o)) = -1 THEN -1 ELSE 8 + PrefixOfOctets(Tail(o)))
    ELSE IF \E i \in 2..Len(o) : o[i] # 0 THEN -1
    ELSE OctetOnes(Head(o))
PrefixOfOctets(o) == Then(o, PrefixOfOctetsOf)

\* As a netmask, and if that fails, the inverted bits as a hostmask.
PrefixOfParsed(o) ==
    IF o = <<>> THEN -1
    ELSE IF PrefixOfOctets(o) # -1 THEN PrefixOfOctets(o)
    ELSE PrefixOfOctets(<<255 - o[1], 255 - o[2], 255 - o[3], 255 - o[4]>>)

\* ipaddress._make_netmask of the text after "/": a decimal prefix length of
\* at most 32 (_prefix_from_prefix_string), else a dotted-quad netmask or
\* hostmask (_prefix_from_ip_string); -1 for NetmaskValueError.
PrefixOfMask(masktext) ==
    IF masktext # <<>>
         /\ \A i \in 1..Len(masktext) : \E d \in 1..10 : Digits[d] = masktext[i]
    THEN (IF DecVal(masktext) <= 32 THEN DecVal(masktext) ELSE -1)
    ELSE Then(ParseOctets(masktext), PrefixOfParsed)

\* The integers lo .. hi in ascending order.
RECURSIVE Ascending(_, _)
Ascending(lo, hi) == IF lo > hi THEN <<>> ELSE <<lo>> \o Ascending(lo + 1, hi)

\* IPv4Network.hosts() of the network holding address v with prefix p, in
\* ascending order: all addresses but the network and broadcast address; both
\* addresses of a /31; the single address of a /32.
hosts(v, p) ==
    LET size == Pow2(32 - p)
        net == v - (v % size)
    IN IF p = 32 THEN <<net>>
       ELSE IF p = 31 THEN <<net, net + 1>>
       ELSE Ascending(net + 1, net + size - 2)

\* [x.exploded for x in hs]
RECURSIVE ExplodedAll(_)
ExplodedAllOf(hs) == IF hs = <<>> THEN <<>> ELSE <<exploded(Head(hs))>> \o ExplodedAll(Tail(hs))
ExplodedAll(hs) == Then(hs, ExplodedAllOf)

\* list.index(x): the 1-based position of the first x from position i on, 0
\* for ValueError.
RECURSIVE IndexFrom(_, _, _)
IndexFrom(seq, x, i) ==
    IF i > Len(seq) THEN 0 ELSE IF seq[i] = x THEN i ELSE IndexFrom(seq, x, i + 1)

IndexOf(seq, x) == IndexFrom(seq, x, 1)

\* list[a:b] for 0 <= a <= b.
PySlice(seq, a, b) ==
    LET hi == IF b > Len(seq) THEN Len(seq) ELSE b IN
    IF a >= hi THEN <<>> ELSE SubSeq(seq, a + 1, hi)

ValueError == <<"ValueError">>
IndexError == <<"IndexError">>
TypeError == <<"TypeError">>
Errors == {ValueError, IndexError, TypeError}

PyItem_wrapping(seq, i) == seq[(i % Len(seq)) + 1]

\* list[i] with Python's negative indices, IndexError when out of range.
PyItem(seq, i) ==
    LET j == IF i < 0 THEN i + Len(seq) ELSE i IN
    IF j < 0 \/ j >= Len(seq) THEN IndexError ELSE seq[j + 1]

SliceIndex_asgiven(b, idx) == idx

\* The expression indexing hosts_slice: vmtypes.py uses the cluster index,
\* vmbuilder.py the cluster index minus one.
SliceIndex(b, idx) == IF b = "VMBuilder" THEN idx - 1 ELSE idx

\* hosts_slice[...] of getIPAddress, given the exploded host list.
PickHost(texts, b, ip, size, idx) ==
    LET pick(start) ==
          IF start = 0 THEN ValueError
          ELSE PyItem(PySlice(texts, start - 1, start - 1 + size), SliceIndex(b, idx))
    IN Then(IndexOf(texts, ip), pick)

\* The cluster branch of getIPAddress: the network, its hosts, the slice.
PlanAddress(b, ip, mask, size, idx) ==
    LET onHosts(texts) == PickHost(texts, b, ip, size, idx)
        onNet(np) == IF np[1] = -1 \/ np[2] = -1 THEN ValueError
                     ELSE Then(ExplodedAll(hosts(np[1], np[2])), onHosts)
    IN Then(<<ParseIPv4(ip), PrefixOfMask(mask)>>, onNet)

getIPAddress_always_planned(b, ip, mask, size, idx) ==
    IF ip = None \/ ip = <<>> THEN None ELSE PlanAddress(b, ip, mask, size, idx)

getIPAddress_always_static(b, ip, mask, size, idx) ==
    IF size = 1 THEN ip ELSE PlanAddress(b, ip, mask, size, idx)

\* VMBuilder.getIPAddress of vmtypes.py and of vmbuilder.py: None, the
\* address text, or the exception that leaves it.
getIPAddress(b, ip, mask, size, idx) ==
    IF ip = None \/ ip = <<>> THEN None
    ELSE IF size = 1 THEN ip
    ELSE PlanAddress(b, ip, mask, size, idx)

\* VMBuilder.getPrefixLength: IPv4Network(ip/netmask, strict=False).prefixlen,
\* -1 for the ValueError of an address or mask that does not parse.
getPrefixLength_hostbits(ip, mask) ==
    IF ParseOctets(ip) = <<>> \/ PrefixOfMask(mask) = -1 THEN -1 ELSE 32 - PrefixOfMask(mask)

getPrefixLength(ip, mask) ==
    IF ParseOctets(ip) = <<>> THEN -1 ELSE PrefixOfMask(mask)

PlannedIP(a) ==
    getIPAddress(a.build, a.ip_address, a.netmask, a.cluster_size, a.cluster_index)

\* ------------------------------------------------- ubuntu_cloud.UbuntuCloud
ReleaseImagePath == PoolPath \o <<"/", "ubuntu-minimal-cloudimg-amd64.img">>
GoldenImagePath == PoolPath \o <<"/", "ubuntu-minimal-cloudimg-amd64-golden.img">>
getVmSeedImagePath(hostname) == PoolPath \o <<"/">> \o getVmName(hostname) \o <<"-seed.img">>
VmFile(hostname, f) == getVmDirectory(hostname) \o <<"/", f>>

downloadUbuntuCloudImage(a, r) ==
    IF r.status # "running" THEN r
    ELSE IF ReleaseImagePath \in r.paths THEN Log(r, "Image already downloaded")
    ELSE IF a.dry_run THEN Log(r, "DRY RUN: Would have retrieved new image")
    ELSE [Call(r, "urlretrieve", ReleaseImagePath) EXCEPT !.paths = @ \cup {ReleaseImagePath}]

createVmDirectory(a, r) ==
    IF r.status # "running" THEN r
    ELSE IF getVmDirectory(a.hostname) \in r.paths THEN r
    ELSE IF a.dry_run THEN Log(r, "DRY RUN: Would have created VM directory")
    ELSE [Call(r, "mkdir", getVmDirectory(a.hostname))
            EXCEPT !.paths = @ \cup {getVmDirectory(a.hostname)}]

\* open(os.path.join(getVmDirectory(), f), "w") and write.
WriteVmFile(a, r, f) ==
    IF getVmDirectory(a.hostname) \notin r.paths THEN Raise(r, "FileNotFoundError")
    ELSE Call(r, "write", VmFile(a.hostname, f))

writeUserData(a, r) ==
    IF r.status # "running" THEN r
    ELSE IF a.dry_run THEN Log(r, "DRY RUN: Did not actually write user-data")
    ELSE WriteVmFile(a, r, "user-data")

writeMetaData(a, r) ==
    IF r.status # "running" THEN r
    ELSE IF a.dry_run THEN Log(r, "DRY RUN: Did not actually write meta-data")
    ELSE WriteVmFile(a, r, "meta-data")

writeNetworkConfigData(a, r) ==
    LET write(ip) ==
          IF ip \in Errors THEN Raise(r, ip[1])
          ELSE IF ip = None \/ a.netmask = None \/ a.gateway = None THEN r
          ELSE IF getPrefixLength(ip, a.netmask) = -1 THEN Raise(r, "ValueError")
          ELSE IF a.dry_run THEN Log(r, "DRY RUN: Did not actually write network-config")
          ELSE WriteVmFile(a, r, "network-config")
    IN IF r.status # "running" THEN r ELSE Then(PlannedIP(a), write)

\* A failing qemu-img is logged and swallowed.
createGoldenUbuntuCloudImage(a, r, env) ==
    IF r.status # "running" THEN r
    ELSE IF GoldenImagePath \in r.paths THEN Log(r, "Golden image already exists")
    ELSE IF a.dry_run THEN Log(r, "DRY RUN: Would have created golden image")
    ELSE IF env.tool_ok
         THEN [Call(r, "qemu-img convert", GoldenImagePath)
                 EXCEPT !.paths = @ \cup {GoldenImagePath}]
    ELSE Log(Call(r, "qemu-img convert", GoldenImagePath), "CRITICAL: Error in creating image")

\* A failing cloud-localds is logged and swallowed.
createVmSeedImage(a, r, env) ==
    IF r.status # "running" THEN r
    ELSE IF a.dry_run THEN Log(r, "DRY RUN. Would have run cloud-localds")
    ELSE IF env.tool_ok THEN Call(r, "cloud-localds", getVmSeedImagePath(a.hostname))
    ELSE Log(Call(r, "cloud-localds", getVmSeedImagePath(a.hostname)),
             "CRITICAL: Error in creating image")

ubuntu_cloud_normalizeVMState(a, r, env) ==
    LET s1(x) == deleteVMDirectory(a, x)
        s2(x) == downloadUbuntuCloudImage(a, x)
        s3(x) == createVmDirectory(a, x)
        s4(x) == writeUserData(a, x)
        s5(x) == writeMetaData(a, x)
        s6(x) == writeNetworkConfigData(a, x)
        s7(x) == createGoldenUbuntuCloudImage(a, x, env)
        s8(x) == createVmSeedImage(a, x, env)
    IN Then(Then(Then(Then(Then(Then(Then(Then(
         base_normalizeVMState(a, r), s1), s2), s3), s4), s5), s6), s7), s8)

\* ------------------------------------------------- coreos.CoreOS
SnapshotImagePath == PoolPath \o <<"/", "coreos_production_qemu_image.img.bz2">>

\* The snapshot refresh that follows the deletions in CoreOS.normalizeVMState.
coreos_refreshSnapshot(a, r, env) ==
    IF r.status # "running" THEN r
    ELSE IF r.snapshot_age = "fresh" THEN Log(r, "CoreOS snapshot image is fresh")
    ELSE LET r1 == IF r.snapshot_age = "absent" THEN r
                   ELSE IF a.dry_run THEN Log(r, "DRY RUN: Would have deleted old image")
                   ELSE [Call(r, "remove", SnapshotImagePath) EXCEPT !.snapshot_age = "absent"]
         IN IF a.dry_run THEN Log(r1, "DRY RUN: Would have retrieved a new CoreOS image")
            ELSE IF env.tool_ok
                 THEN [Call(Call(r1, "urlretrieve", SnapshotImagePath), "bzip2", SnapshotImagePath)
                         EXCEPT !.snapshot_age = "fresh"]
            ELSE Raise(Call(Call(r1, "urlretrieve", SnapshotImagePath), "bzip2", SnapshotImagePath),
                       "CalledProcessError")

coreos_normalizeVMState(a, r, env) ==
    LET refresh(x) == coreos_refreshSnapshot(a, x, env)
    IN Then(base_normalizeVMState(a, r), refresh)

\* ------------------------------------------------- proxmox_ubuntu_cloud
\* The cached index is filled from the cluster whenever it is empty: the
\* test is "not self.allvminfo", which an index fetched from a cluster
\* without guests passes again.
FetchLog == "Creating dict of all VM info"

getAllVMInfo(r) ==
    IF r.allvminfo = <<>> THEN Log([r EXCEPT !.allvminfo = r.pve], FetchLog) ELSE r

checkTaskStatus_nowait(r, outcome) == r

\* checkTaskStatus as its caller sees it: it returns when the task stopped
\* with exit status OK and ends the process otherwise.
checkTaskStatus(r, outcome) ==
    IF r.status # "running" THEN r
    ELSE IF outcome = "OK" THEN Log(r, "Task exited OK")
    ELSE Raise(r, "exit1")

InCluster(r, vmid) == \E i \in 1..Len(r.pve) : r.pve[i].vmid = vmid

\* status.stop.post on the guest, then the wait for its task.
pveStop(r, vm, env) ==
    IF ~InCluster(r, vm.vmid) THEN Raise(Call(r, "pve-stop", DecStr(vm.vmid)), "ResourceException")
    ELSE LET r1 == checkTaskStatus(Call(r, "pve-stop", DecStr(vm.vmid)), env.stop) IN
         IF r1.status # "running" THEN r1
         ELSE [r1 EXCEPT !.pve = [i \in 1..Len(@) |->
                   IF @[i].vmid = vm.vmid THEN [@[i] EXCEPT !.status = "stopped"] ELSE @[i]]]

\* qemu(vmid).delete(purge=1), then the wait for its task.
pveDelete(r, vm, env) ==
    IF r.status # "running" THEN r
    ELSE IF ~InCluster(r, vm.vmid)
         THEN Raise(Call(r, "pve-delete", DecStr(vm.vmid)), "ResourceException")
    ELSE LET r1 == checkTaskStatus(Call(r, "pve-delete", DecStr(vm.vmid)), env.delete)
             Keep(g) == g.vmid # vm.vmid
         IN IF r1.status # "running" THEN r1
            ELSE [r1 EXCEPT !.pve = SelectSeq(@, Keep)]

\* The loop over allvminfo.items() from position i on; found is
\* existing_found.
RECURSIVE proxmox_loop(_, _, _, _, _)
proxmox_loop(a, r, env, i, found) ==
    IF i > Len(r.allvminfo)
    THEN (IF found THEN Raise(r, "exit1") ELSE Log(r, "Did not find pre-existing VM"))
    ELSE IF r.allvminfo[i].name # getVmName(a.hostname)
         THEN proxmox_loop(a, r, env, i + 1, found)
    ELSE IF a.dry_run
         THEN proxmox_loop(a, Log(r, "DRY RUN: Would have stopped, and deleted VM"),
                           env, i + 1, found)
    ELSE IF a.deleteifexists
         THEN LET delete(x) == pveDelete(x, r.allvminfo[i], env)
              IN Then(pveStop(r, r.allvminfo[i], env), delete)
    ELSE proxmox_loop(a, Log(r, "CRITICAL: existing VM, no --deleteifexists"),
                      env, i + 1, TRUE)

proxmox_search(a, r, env) ==
    IF r.allvminfo = <<>> THEN r ELSE proxmox_loop(a, r, env, 1, FALSE)

proxmox_normalizeVMState(a, r, env) ==
    LET search(x) == proxmox_search(a, x, env) IN
    IF r.status # "running" THEN r ELSE Then(getAllVMInfo(r), search)

\* ------------------------------------------------- dispatch
\* normalizeVMState of the builder object, by its class.
normalizeVMState(a, r, env) ==
    CASE a.build = "VMBuilder" -> vmbuilder_normalizeVMState(a, r)
      [] a.build \in {"Debian", "Ubuntu"} -> base_normalizeVMState(a, r)
      [] a.build = "UbuntuCloud" -> ubuntu_cloud_normalizeVMState(a, r, env)
      [] a.build = "CoreOS" -> coreos_normalizeVMState(a, r, env)
      [] a.build = "ProxmoxUbuntuCloud" -> proxmox_normalizeVMState(a, r, env)

\* ------------------------------------------------- composers
\* " ".join(list of texts)
RECURSIVE JoinSpace(_)
JoinSpace(l) == IF l = <<>> THEN <<>>
                ELSE IF Len(l) = 1 THEN l[1]
                ELSE l[1] \o <<" ">> \o JoinSpace(Tail(l))

\* A returned value: kind is "None", "text", "dict" or "error".
Ret(kind, val) == [kind |-> kind, val |-> val]

RetIP(x) == IF x = None THEN Ret("None", None)
            ELSE IF x \in Errors THEN Ret("error", x)
            ELSE Ret("text", x)

\* Debian.getNetworkExtraArgs (inherited by Ubuntu): the dict as a list of
\* <<key, value>> in insertion order; BaseVM.getNetworkExtraArgs returns {}.
getNetworkExtraArgs(a) ==
    LET compose(ip) ==
          IF ip \in Errors THEN Ret("error", ip)
          ELSE IF ip = None THEN Ret("dict", <<>>)
          ELSE IF a.nameserver = None THEN Ret("error", TypeError)
          ELSE Ret("dict", << <<"netcfg/get_nameservers", JoinSpace(a.nameserver)>>,
                        <<"netcfg/get_ipaddress", ip>>,
                        <<"netcfg/get_netmask", a.netmask>>,
                        <<"netcfg/get_gateway", a.gateway>>,
                        <<"netcfg/confirm_static", <<"true">> >>,
                        <<"netcfg/disable_autoconfig", <<"true">> >> >>)
    IN IF a.build \notin {"Debian", "Ubuntu"} THEN Ret("dict", <<>>)
       ELSE Then(PlannedIP(a), compose)

DhcpIpConfig == <<"ip=dhcp,ip6=auto">>

\* ProxmoxUbuntuCloud.getNetworkConfig.  With a static address it calls
\* getPrefixLength with three arguments, which the two-parameter method of
\* vmtypes.VMBuilder rejects.
getNetworkConfig(a) ==
    LET compose(ip) ==
          IF ip \in Errors THEN Ret("error", ip)
          ELSE IF ip = None THEN Ret("text", DhcpIpConfig)
          ELSE IF ParseIPv4(ip) = -1 THEN Ret("error", ValueError)
          ELSE Ret("error", TypeError)
    IN Then(PlannedIP(a), compose)

\* ------------------------------------------------- initial states
\* The first instance of a run: the name for which resources may already
\* exist when the run starts.
FirstIndices(b, size) ==
    {i \in ClusterIndices(b, size) : InstanceOrdinal(b, i) = 0}

RunHostNames(b, size) ==
    {setVmHostName(HostNameArg, i, size) : i \in FirstIndices(b, size)}

TemplateName == <<"ubuntu-template">>
Nodes == {"pve1", "pve2"}
VmIds == 100..(100 + MaxPveVMs - 1)
Absent == [vmid |-> 0, name |-> <<>>, node |-> "", status |-> "", template |-> FALSE]

Guests(b, size) ==
    {[vmid |-> 0, name |-> n, node |-> nd, status |-> st, template |-> (n = TemplateName)] :
        n \in {getVmName(h) : h \in RunHostNames(b, size)} \cup {TemplateName},
        nd \in Nodes, st \in {"running", "stopped"}}

\* The guests f assigns to the vmids from id on, in ascending vmid order.
RECURSIVE Listing(_, _)
Listing(f, id) ==
    IF id \notin DOMAIN f THEN <<>>
    ELSE IF f[id] = Absent THEN Listing(f, id + 1)
    ELSE <<[f[id] EXCEPT !.vmid = id]>> \o Listing(f, id + 1)

PveListings(b, size) ==
    {Listing(f, 100) : f \in [VmIds -> Guests(b, size) \cup {Absent}]}

ExtraPaths(b, size) ==
    CASE b = "UbuntuCloud" ->
            {getVmDirectory(h) : h \in RunHostNames(b, size)}
              \cup {ReleaseImagePath, GoldenImagePath}
      [] b = "CoreOS" -> {getCloudConfigDir(h) : h \in RunHostNames(b, size)}
      [] OTHER -> {}

NoOp == [op |-> "none", name |-> <<>>, definedBefore |-> {}, activeBefore |-> {},
         volExisted |-> FALSE, dirExisted |-> FALSE, ncalls |-> 0, logs |-> {}]

NoResult == Ret("none", <<>>)

\* The arguments verifyMinimumCreateVMArgs requires.
CriticalArgs == {"bridge_interface", "domain_name", "disk_pool_name", "vm_type", "host_name"}

\* The process record: the command and the critical arguments given on the
\* command line, the position in main (pc), whether a backend connection
\* is open (VMBuilder.conn, the ProxmoxAPI object) and whether the builder
\* object exists (VMBuilder.build).
InCreateVM == [command |-> "create_vm", given |-> CriticalArgs, pc |-> "createVM",
               conn |-> FALSE, built |-> TRUE]

\* Not inside checkTaskStatus.
NoPoll == [pc |-> "idle", now |-> 0, timeout |-> 0, deadline |-> 0, task |-> "none",
           polls |-> 0]

DhcpNet == [ip |-> None, mask |-> None, gw |-> None, ns |-> None]

Mask29 == <<"2", "5", "5", ".", "2", "5", "5", ".", "2", "5", "5", ".", "2", "4", "8">>
Mask30 == <<"2", "5", "5", ".", "2", "5", "5", ".", "2", "5", "5", ".", "2", "5", "2">>
Mask31 == <<"2", "5", "5", ".", "2", "5", "5", ".", "2", "5", "5", ".", "2", "5", "4">>
Masks == {Mask29, Mask30, Mask31}

StaticNet(iptext, mask) ==
    [ip |-> iptext, mask |-> mask, gw |-> exploded(Net0 + 1), ns |-> <<exploded(Net0 + 2)>>]

InitCommon ==
    /\ build \in Builds
    /\ dry_run \in BOOLEAN
    /\ deleteifexists \in BOOLEAN
    /\ cluster_size \in 1..MaxCluster
    /\ cluster_index = DefaultClusterIndex(build)
    /\ vm_hostname = None
    /\ calls = <<>>
    /\ status = "running"
    /\ last = NoOp
    /\ result = NoResult
    /\ nops = 0
    /\ poll = NoPoll

\* A process about to normalize: any pre-existing state of the backend for
\* the names of the run; the Proxmox index was filled by the constructor.
InitNorm ==
    /\ InitCommon
    /\ \E net \in (IF build = "UbuntuCloud"
                   THEN {DhcpNet, StaticNet(exploded(Net0 + 1), Mask29)}
                   ELSE {DhcpNet}) :
         /\ ip_address = net.ip
         /\ netmask = net.mask
         /\ gateway = net.gw
         /\ nameserver = net.ns
    /\ defined \in (IF build \in LibvirtBuilds
                    THEN SUBSET {getVmName(h) : h \in RunHostNames(build, cluster_size)}
                    ELSE {{}})
    /\ active \in SUBSET defined
    /\ volumes \in (IF build \in LibvirtBuilds
                    THEN SUBSET {getVmDiskImageName(h) : h \in RunHostNames(build, cluster_size)}
                    ELSE {{}})
    /\ paths \in SUBSET ExtraPaths(build, cluster_size)
    /\ snapshot_age \in (IF build = "CoreOS" THEN {"absent", "fresh", "stale"} ELSE {"absent"})
    /\ pve \in (IF build = "ProxmoxUbuntuCloud" THEN PveListings(build, cluster_size)
                ELSE {<<>>})
    /\ allvminfo = pve
    /\ run = InCreateVM
    /\ poll = NoPoll

\* ------------------------------------------------- actions
\* The world as a run record, and the outcomes the environment may give.
World ==
    [defined |-> defined, active |-> active, volumes |-> volumes, paths |-> paths,
     snapshot_age |-> snapshot_age, pve |-> pve, allvminfo |-> allvminfo,
     calls |-> <<>>, logs |-> {}, status |-> "running"]

TaskOutcomes == {"OK", "failed", "timeout"}
AllOK == [stop |-> "OK", delete |-> "OK", tool_ok |-> TRUE]

\* The outcomes that can differ for a build: the Proxmox tasks it waits for,
\* the exit status of the image tools it runs.
Envs(b) ==
    CASE b = "ProxmoxUbuntuCloud" ->
            {[AllOK EXCEPT !.stop = s, !.delete = d] : s, d \in TaskOutcomes}
      [] b \in {"UbuntuCloud", "CoreOS"} -> {[AllOK EXCEPT !.tool_ok = t] : t \in BOOLEAN}
      [] OTHER -> {AllOK}

\* What exists before an operation, for the instance name it is about.
Observed(op) ==
    [op |-> op,
     name |-> getVmName(vm_hostname),
     definedBefore |-> IF build = "ProxmoxUbuntuCloud"
                       THEN {DecStr(pve[i].vmid) : i \in
                               {j \in 1..Len(pve) : pve[j].name = getVmName(vm_hostname)}}
                       ELSE defined \cap {getVmName(vm_hostname)},
     activeBefore |-> IF build = "ProxmoxUbuntuCloud"
                      THEN {DecStr(pve[i].vmid) : i \in
                              {j \in 1..Len(pve) : pve[j].status = "running"}}
                      ELSE active,
     volExisted |-> getVmDiskImageName(vm_hostname) \in volumes,
     dirExisted |-> \/ build = "UbuntuCloud" /\ getVmDirectory(vm_hostname) \in paths
                    \/ build = "CoreOS" /\ getCloudConfigDir(vm_hostname) \in paths,
     ncalls |-> Len(calls),
     logs |-> {}]

\* createVM's loop header: the next cluster index and its host name.
SetIdentity ==
    /\ status = "running"
    /\ LET idx == IF vm_hostname = None
                  THEN DefaultClusterIndex(build)
                  ELSE cluster_index + 1
       IN /\ idx \in ClusterIndices(build, cluster_size)
          /\ cluster_index' = idx
          /\ vm_hostname' = setVmHostName(HostNameArg, idx, cluster_size)
    /\ last' = [NoOp EXCEPT !.op = "setIdentity", !.ncalls = Len(calls)]
    /\ UNCHANGED <<poll, argVars, worldVars, calls, status, result, nops, run>>

\* One invocation of normalizeVMState for the current identity.
NormalizeVMState ==
    /\ status = "running"
    /\ vm_hostname # None
    /\ nops < MaxNormalize
    /\ \E env \in Envs(build), a \in {Args}, w \in {World} :
       \E r \in {normalizeVMState(a, w, env)} :
           /\ defined' = r.defined
           /\ active' = r.active
           /\ volumes' = r.volumes
           /\ paths' = r.paths
           /\ snapshot_age' = r.snapshot_age
           /\ pve' = r.pve
           /\ allvminfo' = r.allvminfo
           /\ calls' = calls \o r.calls
           /\ status' = r.status
           /\ last' = [Observed("normalizeVMState") EXCEPT !.logs = r.logs]
    /\ nops' = nops + 1
    /\ UNCHANGED <<poll, argVars, cluster_index, vm_hostname, result, run>>

NextNorm == SetIdentity \/ NormalizeVMState

SpecNorm == InitNorm /\ [][NextNorm]_vars

\* ------------------------------------------------- address harness
\* The address texts explored: canonical and zero-padded spellings of
\* 10.0.0.0 .. 10.0.0.MaxAddr.
AddrTexts == {exploded(Net0 + i) : i \in 0..MaxAddr} \cup {padded(Net0 + i) : i \in 0..MaxAddr}

\* A process about to compose its network settings: nothing exists yet.
InitAddr ==
    /\ build \in Builds
    /\ dry_run = FALSE
    /\ deleteifexists = FALSE
    /\ cluster_size \in 1..MaxCluster
    /\ cluster_index = DefaultClusterIndex(build)
    /\ vm_hostname = None
    /\ \E net \in {DhcpNet} \cup {StaticNet(t, m) : t \in AddrTexts, m \in Masks} :
         /\ ip_address = net.ip
         /\ netmask = net.mask
         /\ gateway = net.gw
         /\ nameserver = net.ns
    /\ defined = {} /\ active = {} /\ volumes = {} /\ paths = {}
    /\ snapshot_age = "absent"
    /\ pve = <<>> /\ allvminfo = <<>>
    /\ calls = <<>>
    /\ status = "running"
    /\ last = NoOp
    /\ result = NoResult
    /\ nops = 0
    /\ run = InCreateVM
    /\ poll = NoPoll

Query(op, value) ==
    /\ status = "running"
    /\ vm_hostname # None
    /\ nops < MaxQueries
    /\ result' = value
    /\ last' = [NoOp EXCEPT !.op = op, !.name = getVmName(vm_hostname), !.ncalls = Len(calls)]
    /\ nops' = nops + 1
    /\ UNCHANGED <<poll, argVars, worldVars, cluster_index, vm_hostname, calls, status, run>>

\* self.getIPAddress() for the current identity.
GetIPAddress == \E a \in {Args} : Query("getIPAddress", RetIP(PlannedIP(a)))

\* self.getNetworkExtraArgs() of the libvirt builders.
GetNetworkExtraArgs ==
    /\ build \in LibvirtBuilds \ {"VMBuilder"}
    /\ \E a \in {Args} : Query("getNetworkExtraArgs", getNetworkExtraArgs(a))

\* self.getNetworkConfig() of the Proxmox builder.
GetNetworkConfig ==
    /\ build = "ProxmoxUbuntuCloud"
    /\ \E a \in {Args} : Query("getNetworkConfig", getNetworkConfig(a))

NextAddr == SetIdentity \/ GetIPAddress \/ GetNetworkExtraArgs \/ GetNetworkConfig

SpecAddr == InitAddr /\ [][NextAddr]_vars

\* ------------------------------------------------- prefix length harness
\* The dotted quad of four octets.
DottedQuad(o) ==
    DecStr(o[1]) \o <<".">> \o DecStr(o[2]) \o <<".">> \o DecStr(o[3]) \o <<".">> \o DecStr(o[4])

\* The octets of the netmask with p leading one bits.
MaskOctets(p) ==
    [i \in 1..4 |-> IF p >= 8 * i THEN 255
                    ELSE IF p <= 8 * (i - 1) THEN 0
                    ELSE 256 - 2 ^ (8 * i - p)]

\* Values of args.netmask: every netmask, and texts that are none: a
\* hostmask, a mask with a hole, an octet out of range, a prefix length.
PrefixMasks ==
    {DottedQuad(MaskOctets(p)) : p \in 0..32}
      \cup {DottedQuad(<<0, 0, 0, 255>>), DottedQuad(<<255, 0, 255, 0>>),
            DottedQuad(<<256, 0, 0, 0>>), DecStr(24), DecStr(33)}

\* Values of args.ip_address.
PrefixIPs ==
    {DottedQuad(<<192, 168, 1, 10>>), DottedQuad(<<10, 0, 0, 1>>),
     DottedQuad(<<255, 255, 255, 255>>), padded(Net0 + 1)}

RetPrefix(n) == IF n = -1 THEN Ret("error", ValueError) ELSE Ret("int", n)

\* A single-instance process with static network arguments.
InitPrefix ==
    /\ build \in Builds
    /\ dry_run = FALSE
    /\ deleteifexists = FALSE
    /\ cluster_size = 1
    /\ cluster_index = DefaultClusterIndex(build)
    /\ vm_hostname = None
    /\ ip_address \in PrefixIPs
    /\ netmask \in PrefixMasks
    /\ gateway = exploded(Net0 + 1)
    /\ nameserver = <<exploded(Net0 + 2)>>
    /\ defined = {} /\ active = {} /\ volumes = {} /\ paths = {}
    /\ snapshot_age = "absent"
    /\ pve = <<>> /\ allvminfo = <<>>
    /\ calls = <<>>
    /\ status = "running"
    /\ last = NoOp
    /\ result = NoResult
    /\ nops = 0
    /\ run = InCreateVM
    /\ poll = NoPoll

\* self.getPrefixLength(self.getIPAddress(), self.getNetmask())
GetPrefixLength ==
    \E a \in {Args} : \E ip \in {PlannedIP(a)} :
        Query("getPrefixLength", RetPrefix(getPrefixLength(ip, a.netmask)))

NextPrefix == SetIdentity \/ GetPrefixLength

SpecPrefix == InitPrefix /\ [][NextPrefix]_vars

\* ------------------------------------------------- vmbuilder.py: startup
\* network_args of parseArgs; an argument is set when it is not None.
\* The set without the nameserver.
NetworkArgs_three(a) == <<a.ip_address, a.gateway, a.netmask>>

NetworkArgs(a) == <<a.ip_address, a.nameserver, a.gateway, a.netmask>>

AnySet(l) == \E i \in DOMAIN l : l[i] # None
AllSet(l) == \A i \in DOMAIN l : l[i] # None

parseArgs_unchecked(a, r) == r

\* The check that ends parseArgs: static networking is all or nothing.
parseArgs(a, r) ==
    IF AnySet(NetworkArgs(a)) /\ ~AllSet(NetworkArgs(a))
    THEN Raise(Log(r, "ERROR: IP address, nameserver, netmask, and gateway are ALL required"),
               "HandledException")
    ELSE r

\* vmbuilder.VMBuilder raises HandledException; vmtypes.VMBuilder only logs
\* at critical level and returns.
verifyMinimumCreateVMArgs(b, given, r) ==
    IF r.status # "running" THEN r
    ELSE IF given = CriticalArgs THEN r
    ELSE IF b = "VMBuilder"
         THEN Raise(Log(r, "ERROR: Missing critical arguments"), "HandledException")
    ELSE Log(r, "CRITICAL: Missing critical arguments")

\* The exit status the handlers under __main__ give the process: 1 for
\* HandledException and for sys.exit(1); any other exception is logged and
\* the script runs off its end.
ExitCode(st) == IF st \in {"HandledException", "exit1"} THEN 1 ELSE 0

\* ------------------------------------------------- createDiskImage
\* vmbuilder.VMBuilder.createDiskImage: virsh vol-create-as.
vmbuilder_createDiskImage(a, r, env) ==
    IF r.status # "running" THEN r
    ELSE IF a.dry_run THEN Log(r, "DRYRUN: No disk image was created")
    ELSE IF env.disk = "OK"
         THEN [Call(r, "vol-create-as", getVmDiskImageName(a.hostname))
                 EXCEPT !.volumes = @ \cup {getVmDiskImageName(a.hostname)}]
    ELSE Raise(Log(Call(r, "vol-create-as", getVmDiskImageName(a.hostname)),
                   "ERROR: Error in creating disk image"), "CalledProcessError")

\* vmtypes.VMBuilder.createDiskImage formats its command line with
\* self.GetDiskSize(), a method no class defines.
vmtypes_createDiskImage(a, r) ==
    IF r.status # "running" THEN r ELSE Raise(r, "AttributeError")

\* os.path.join(getDiskPoolPath(), getVmDiskImageName())
getVmDiskImagePath(hostname) == PoolPath \o <<"/">> \o getVmDiskImageName(hostname)

\* The three commands UbuntuCloud and CoreOS run in order; env.disk names
\* the first that exits non-zero, and that one leaves r.status
\* "CalledProcessError" for the except clause of the caller.
ImageCommands == <<"qemu-img create", "pool-refresh", "vol-upload">>

RECURSIVE runImageCommands(_, _, _, _)
runImageCommands(a, r, env, i) ==
    IF i > Len(ImageCommands) THEN r
    ELSE IF a.dry_run
         THEN runImageCommands(a, Log(r, "DRY RUN: Did not actually execute"), env, i + 1)
    ELSE LET c == ImageCommands[i]
             r1 == Call(r, c, getVmDiskImageName(a.hostname))
         IN IF env.disk = c THEN Raise(r1, "CalledProcessError")
            ELSE runImageCommands(a,
                   IF c = "qemu-img create"
                   THEN [r1 EXCEPT !.paths = @ \cup {getVmDiskImagePath(a.hostname)}]
                   ELSE IF c = "pool-refresh"
                   THEN [r1 EXCEPT !.volumes = @ \cup {getVmDiskImageName(a.hostname)}]
                   ELSE r1,
                   env, i + 1)

\* UbuntuCloud.createDiskImage: a failing command is logged at critical
\* level and the method returns.
ubuntu_cloud_createDiskImage(a, r, env) ==
    IF r.status # "running" THEN r
    ELSE LET caught(x) == IF x.status = "CalledProcessError"
                          THEN Raise(Log(x, "CRITICAL: Error in creating disk image"), "running")
                          ELSE x
         IN Then(runImageCommands(a, r, env, 1), caught)

\* CoreOS.createDiskImage: a failing command raises HandledException.
coreos_createDiskImage(a, r, env) ==
    IF r.status # "running" THEN r
    ELSE LET caught(x) == IF x.status = "CalledProcessError"
                          THEN Raise(Log(x, "ERROR: Error in creating disk image"),
                                     "HandledException")
                          ELSE x
         IN Then(runImageCommands(a, r, env, 1), caught)

\* ProxmoxUbuntuCloud.createDiskImage has an empty body.
proxmox_createDiskImage(a, r) == r

createDiskImage(a, r, env) ==
    CASE a.build = "VMBuilder" -> vmbuilder_createDiskImage(a, r, env)
      [] a.build \in {"Debian", "Ubuntu"} -> vmtypes_createDiskImage(a, r)
      [] a.build = "UbuntuCloud" -> ubuntu_cloud_createDiskImage(a, r, env)
      [] a.build = "CoreOS" -> coreos_createDiskImage(a, r, env)
      [] a.build = "ProxmoxUbuntuCloud" -> proxmox_createDiskImage(a, r)

\* ------------------------------------------------- executeVirtInstall
\* What the operator sees of a tool that exits non-zero (stderr is sent to
\* the terminal).
NonZeroExit == "virt-install: non-zero exit status"

\* Creation of the domain by a successful virt-install.
Installed(a, r) ==
    [r EXCEPT !.defined = @ \cup {getVmName(a.hostname)},
              !.active = @ \cup {getVmName(a.hostname)}]

\* vmbuilder.VMBuilder.executeVirtInstall: the hooks are those of BaseVM
\* (no-ops); the status subprocess.call returns is dropped.
vmbuilder_executeVirtInstall(a, r, env) ==
    IF r.status # "running" THEN r
    ELSE IF a.dry_run THEN Log(r, "DRYRUN: VM not actually created. Skipping")
    ELSE IF env.install_ok THEN Installed(a, Call(r, "virt-install", getVmName(a.hostname)))
    ELSE Log(Call(r, "virt-install", getVmName(a.hostname)), NonZeroExit)

\* coreos.CoreOS paths
CtPath == PoolPath \o <<"/", "coreos", "/", "ct">>
getCloudConfigPath(hostname) == getCloudConfigDir(hostname) \o <<"/", "cloud-config.yaml">>
getCoreosXmlPath(hostname) == getCloudConfigDir(hostname) \o <<"/", "vm.xml">>
getIgnitionConfigPath(hostname) == getCloudConfigDir(hostname) \o <<"/", "config.ign">>

writeCloudConfig(a, r) ==
    IF r.status # "running" THEN r
    ELSE IF a.dry_run THEN Log(r, "DRY RUN: Did not actually write Cloud Config")
    ELSE [Call(r, "write", getCloudConfigPath(a.hostname))
            EXCEPT !.paths = @ \cup {getCloudConfigDir(a.hostname)}]

\* downloadCt does not look at dry_run.
downloadCt(a, r) ==
    IF r.status # "running" THEN r
    ELSE IF CtPath \in r.paths THEN Log(r, "Config transpiler already downloaded")
    ELSE [Call(r, "urlretrieve", CtPath) EXCEPT !.paths = @ \cup {CtPath}]

\* In a dry run the transpiler still runs (Popen, status not examined).
writeIgnitionConfig(a, r, env) ==
    IF r.status # "running" THEN r
    ELSE IF CtPath \notin r.paths
         THEN Raise(Log(r, "ERROR: Config transpiler not found"), "HandledException")
    ELSE IF a.dry_run THEN Log(Call(r, "ct", <<"stdin">>), "DRY RUN ct command line")
    ELSE IF env.pre_ok THEN Call(r, "ct", getIgnitionConfigPath(a.hostname))
    ELSE Raise(Log(Call(r, "ct", getIgnitionConfigPath(a.hostname)),
                   "ERROR: Error in creating Ignition Config"), "HandledException")

coreos_executePreVirtInstall(a, r, env) ==
    LET ct(x) == downloadCt(a, x)
        ign(x) == writeIgnitionConfig(a, x, env)
    IN Then(Then(writeCloudConfig(a, r), ct), ign)

\* virsh define, then virsh start; env.post names the one that fails.
defineAndStartVm(a, r, env) ==
    IF r.status # "running" THEN r
    ELSE LET n == getVmName(a.hostname)
             r1 == Call(r, "virsh define", n)
         IN IF env.post = "define"
            THEN Raise(Log(r1, "ERROR: Error while loading VM into libvirt"), "HandledException")
            ELSE LET r2 == Call([r1 EXCEPT !.defined = @ \cup {n}], "virsh start", n)
                 IN IF env.post = "start"
                    THEN Raise(Log(r2, "ERROR: Error while loading VM into libvirt"),
                               "HandledException")
                    ELSE [r2 EXCEPT !.active = @ \cup {n}]

coreos_executePostVirtInstall(a, r, env) ==
    IF r.status # "running" THEN r
    ELSE IF a.dry_run THEN Log(r, "DRY RUN: TODO: Read in-memory copy of XML")
    ELSE IF getCoreosXmlPath(a.hostname) \notin r.paths THEN Raise(r, "IOError")
    ELSE defineAndStartVm(a, Call(r, "write", getCoreosXmlPath(a.hostname)), env)

\* virt-install itself, as vmtypes.VMBuilder.executeVirtInstall runs it
\* after the pre-install hook: a non-zero status is logged and the bare
\* raise that follows ends the method with RuntimeError.  CoreOS passes
\* --print-xml and redirects the output to the XML path of the instance.
runVirtInstall(a, r, env) ==
    IF r.status # "running" THEN r
    ELSE IF a.dry_run THEN Log(r, "DRYRUN: VM not actually created. Skipping")
    ELSE LET r1 == Call(r, "virt-install", getVmName(a.hostname)) IN
         IF ~env.install_ok
         THEN Raise(Log(Log(r1, NonZeroExit), "non-zero returncode from virt-install"),
                    "RuntimeError")
         ELSE IF a.build = "CoreOS"
              THEN coreos_executePostVirtInstall(a,
                     [r1 EXCEPT !.paths = @ \cup {getCoreosXmlPath(a.hostname)}], env)
         ELSE Installed(a, r1)

\* vmtypes.VMBuilder.executeVirtInstall.  Debian.getVirtInstallExtraArgs
\* (inherited by Ubuntu) composes the network arguments and then iterates
\* its dict with iteritems().
vmtypes_executeVirtInstall(a, r, env) ==
    LET install(x) == runVirtInstall(a, x, env)
        extra(x) == IF x.kind = "error" THEN Raise(r, x.val[1]) ELSE Raise(r, "AttributeError")
    IN IF r.status # "running" THEN r
       ELSE IF a.build \in {"Debian", "Ubuntu"} THEN Then(getNetworkExtraArgs(a), extra)
       ELSE IF a.build = "CoreOS" THEN Then(coreos_executePreVirtInstall(a, r, env), install)
       ELSE runVirtInstall(a, r, env)

\* ------------------------------------------------- Proxmox install
\* getNodeName / getViableNode: args.vm_host up to its first dot.
NodeName == "pve1"

\* cluster.nextid.get(): the lowest free vmid from 100 on.
RECURSIVE NextIdFrom(_, _)
NextIdFrom(r, id) == IF InCluster(r, id) THEN NextIdFrom(r, id + 1) ELSE id

getNextVMId(a, r) == IF a.dry_run THEN -1 ELSE NextIdFrom(r, 100)

\* The vmids getTemplateVMId finds for the name: guests of the cached index
\* that carry the template mark and sit on the node of the install.
TemplateIds(r, template_name) ==
    {r.allvminfo[i].vmid : i \in {j \in 1..Len(r.allvminfo) :
        /\ r.allvminfo[j].template
        /\ r.allvminfo[j].node = NodeName
        /\ r.allvminfo[j].name = template_name}}

getTemplateVMId_noexit(r, template_name) ==
    IF r.status # "running" THEN r
    ELSE IF TemplateIds(r, template_name) = {}
         THEN Log(r, "ERROR: Did not find a template VM")
    ELSE Log(r, "Found template VM ID")

\* getTemplateVMId: sys.exit(1) when the name is not among them.
getTemplateVMId(r, template_name) ==
    LET lookup(x) == IF TemplateIds(x, template_name) = {}
                     THEN Raise(Log(x, "ERROR: Did not find a template VM"), "exit1")
                     ELSE Log(x, "Found template VM ID")
    IN IF r.status # "running" THEN r ELSE Then(getAllVMInfo(r), lookup)

\* clone.post and the wait for its task; the clone is a stopped guest on
\* the node.
pveClone(a, r, new_vmid, env) ==
    IF r.status # "running" THEN r
    ELSE IF a.dry_run THEN Log(r, "DRY RUN: Would have cloned VM")
    ELSE LET r1 == checkTaskStatus(Call(r, "pve-clone", DecStr(new_vmid)), env.clone)
         IN IF r1.status # "running" THEN r1
            ELSE [r1 EXCEPT !.pve = Append(@, [vmid |-> new_vmid,
                                               name |-> getVmName(a.hostname),
                                               node |-> NodeName, status |-> "stopped",
                                               template |-> FALSE])]

pveResize(a, r, new_vmid) ==
    IF r.status # "running" THEN r
    ELSE IF a.dry_run THEN Log(r, "DRY RUN: Would have resized disk")
    ELSE Call(r, "pve-resize", DecStr(new_vmid))

\* vm_dict is composed in a dry run too; config.post only outside one.
pveConfig(a, r, new_vmid) ==
    LET post(x) == IF x.kind = "error" THEN Raise(r, x.val[1])
                   ELSE IF a.dry_run THEN r
                   ELSE Call(r, "pve-config", DecStr(new_vmid))
    IN IF r.status # "running" THEN r ELSE Then(getNetworkConfig(a), post)

pveStart(a, r, new_vmid) ==
    IF r.status # "running" THEN r
    ELSE IF a.dry_run THEN Log(r, "DRY RUN: Would have started VM")
    ELSE [Call(r, "pve-start", DecStr(new_vmid))
            EXCEPT !.pve = [i \in 1..Len(@) |->
                     IF @[i].vmid = new_vmid THEN [@[i] EXCEPT !.status = "running"] ELSE @[i]]]

\* ProxmoxUbuntuCloud.executeVirtInstall
proxmox_executeVirtInstall(a, r, env) ==
    LET body(id) ==
          LET template(x) == getTemplateVMId(x, TemplateName)
              clone(x) == pveClone(a, x, id, env)
              resize(x) == pveResize(a, x, id)
              config(x) == pveConfig(a, x, id)
              start(x) == pveStart(a, x, id)
          IN Then(Then(Then(Then(Then(getAllVMInfo(r), template), clone), resize), config), start)
    IN IF r.status # "running" THEN r ELSE Then(getNextVMId(a, r), body)

\* executeVirtInstall of the builder object, by its class.
executeVirtInstall(a, r, env) ==
    CASE a.build = "VMBuilder" -> vmbuilder_executeVirtInstall(a, r, env)
      [] a.build = "ProxmoxUbuntuCloud" -> proxmox_executeVirtInstall(a, r, env)
      [] OTHER -> vmtypes_executeVirtInstall(a, r, env)

\* ------------------------------------------------- the process
\* The outcomes of the tools and tasks of one step.
DiskEnvs(b) ==
    CASE b = "VMBuilder" -> {[disk |-> d] : d \in {"OK", "vol-create-as"}}
      [] b \in {"UbuntuCloud", "CoreOS"} ->
            {[disk |-> d] : d \in {"OK"} \cup {ImageCommands[i] : i \in DOMAIN ImageCommands}}
      [] OTHER -> {[disk |-> "OK"]}

InstallOK == [pre_ok |-> TRUE, install_ok |-> TRUE, post |-> "OK", clone |-> "OK"]

InstallEnvs(b) ==
    CASE b \in {"VMBuilder", "UbuntuCloud"} -> {InstallOK, [InstallOK EXCEPT !.install_ok = FALSE]}
      [] b = "CoreOS" -> {InstallOK, [InstallOK EXCEPT !.pre_ok = FALSE],
                          [InstallOK EXCEPT !.install_ok = FALSE],
                          [InstallOK EXCEPT !.post = "define"],
                          [InstallOK EXCEPT !.post = "start"]}
      [] b = "ProxmoxUbuntuCloud" -> {[InstallOK EXCEPT !.clone = c] : c \in TaskOutcomes}
      [] OTHER -> {InstallOK}

Commands == {"create_vm", "list_disk_pools"}

\* The command lines explored: every critical argument given, or all but
\* one of them.
Givens == {CriticalArgs} \cup {CriticalArgs \ {x} : x \in CriticalArgs}

NetTexts == [ip |-> exploded(Net0 + 1), mask |-> Mask29, gw |-> exploded(Net0 + 1),
             ns |-> <<exploded(Net0 + 2)>>]

\* Any subset of the four network arguments may be given.
NetChoices ==
    {[f \in DOMAIN NetTexts |-> IF f \in given THEN NetTexts[f] ELSE None] :
        given \in SUBSET DOMAIN NetTexts}

\* The clusters a run starts against: templates are stopped guests on
\* either node, guests with the name of an instance of the run are
\* running on the node of the install.
AllHostNames(b, size) ==
    {setVmHostName(HostNameArg, i, size) : i \in ClusterIndices(b, size)}

RunGuests(b, size) ==
    {[vmid |-> 0, name |-> TemplateName, node |-> nd, status |-> "stopped", template |-> TRUE] :
        nd \in Nodes}
    \cup {[vmid |-> 0, name |-> getVmName(h), node |-> NodeName, status |-> "running",
            template |-> FALSE] : h \in AllHostNames(b, size)}

RunListings(b, size) ==
    {Listing(f, 100) : f \in [VmIds -> RunGuests(b, size) \cup {Absent}]}

\* A process that has just started: nothing parsed, no builder object, no
\* connection; the backend holds whatever earlier runs left under the
\* names of the instances.
InitRun ==
    /\ InitCommon
    /\ run \in {[command |-> c, given |-> g, pc |-> "start", conn |-> FALSE, built |-> FALSE] :
                  c \in Commands, g \in Givens}
    \* a missing domain or pool name is explored where verification stops
    \* the run; the later steps are modelled for the names given
    /\ build # "VMBuilder" =>
           (CriticalArgs \ run.given) \subseteq {"bridge_interface", "vm_type", "host_name"}
    /\ \E net \in NetChoices :
         /\ ip_address = net.ip
         /\ netmask = net.mask
         /\ gateway = net.gw
         /\ nameserver = net.ns
    /\ LET viable == /\ run.command = "create_vm"
                     /\ {"vm_type", "host_name"} \subseteq run.given
                     /\ ip_address = None <=> gateway = None
                     /\ ip_address = None <=> netmask = None
                     /\ ip_address = None <=> nameserver = None
       IN /\ defined \in (IF viable /\ build \in LibvirtBuilds
                          THEN SUBSET {getVmName(h) : h \in AllHostNames(build, cluster_size)}
                          ELSE {{}})
          /\ active \in {{}, defined}
          /\ volumes \in {{}, {getVmDiskImageName(h) : h \in AllHostNames(build, cluster_size)}
                                \cap {n \o <<".qcow2">> : n \in defined}}
          /\ paths \in (IF viable /\ build = "CoreOS" THEN SUBSET {CtPath} ELSE {{}})
          /\ snapshot_age \in (IF viable /\ build = "CoreOS" THEN {"absent", "fresh"}
                               ELSE {"absent"})
          /\ pve \in (IF viable /\ build = "ProxmoxUbuntuCloud"
                      THEN RunListings(build, cluster_size) ELSE {<<>>})
    /\ allvminfo = <<>>

\* The body of createVM's loop, as the step that follows each position.
StepAfter_diskfirst(pc) ==
    CASE pc \in {"createVM", "installed"} -> "setIdentity"
      [] pc = "identity" -> "createDiskImage"
      [] pc = "disk" -> "normalizeVMState"
      [] pc = "normalized" -> "executeVirtInstall"
      [] OTHER -> "none"

StepAfter(pc) ==
    CASE pc \in {"createVM", "installed"} -> "setIdentity"
      [] pc = "identity" -> "normalizeVMState"
      [] pc = "normalized" -> "createDiskImage"
      [] pc = "disk" -> "executeVirtInstall"
      [] OTHER -> "none"

\* What a handler leaves behind, written back to the state.
Commit(r) ==
    /\ defined' = r.defined
    /\ active' = r.active
    /\ volumes' = r.volumes
    /\ paths' = r.paths
    /\ snapshot_age' = r.snapshot_age
    /\ pve' = r.pve
    /\ allvminfo' = r.allvminfo
    /\ calls' = calls \o r.calls
    /\ status' = r.status

\* main: vm = VMBuilder(), whose constructor parses the command line.
Main_ParseArgs ==
    /\ status = "running"
    /\ run.pc = "start"
    /\ \E a \in {Args}, w \in {World} : \E r \in {parseArgs(a, w)} :
         /\ status' = r.status
         /\ last' = [NoOp EXCEPT !.op = "parseArgs", !.logs = r.logs]
    /\ run' = [run EXCEPT !.pc = "parsed"]
    /\ UNCHANGED <<poll, argVars, worldVars, cluster_index, vm_hostname, calls, result, nops>>

\* main: a list command prints what the libvirt connection reports.
Main_List ==
    /\ status = "running"
    /\ run.pc = "parsed"
    /\ run.command = "list_disk_pools"
    /\ run' = [run EXCEPT !.pc = "end", !.conn = TRUE]
    /\ status' = "done"
    /\ last' = [NoOp EXCEPT !.op = "getDiskPools"]
    /\ UNCHANGED <<poll, argVars, worldVars, cluster_index, vm_hostname, calls, result, nops>>

\* main: vm.verifyMinimumCreateVMArgs()
Main_Verify ==
    /\ status = "running"
    /\ run.pc = "parsed"
    /\ run.command = "create_vm"
    /\ \E w \in {World} : \E r \in {verifyMinimumCreateVMArgs(build, run.given, w)} :
         /\ status' = r.status
         /\ last' = [NoOp EXCEPT !.op = "verifyMinimumCreateVMArgs", !.logs = r.logs]
    /\ run' = [run EXCEPT !.pc = "verified"]
    /\ UNCHANGED <<poll, argVars, worldVars, cluster_index, vm_hostname, calls, result, nops>>

\* main: vm.getBuild().  Without a vm_type no branch of getBuild matches and
\* createVM is looked up on None; the ProxmoxUbuntuCloud constructor opens
\* the API connection and fills the index of guests.
Main_GetBuild ==
    /\ status = "running"
    /\ run.pc = "verified"
    /\ IF "vm_type" \notin run.given
       THEN /\ status' = "AttributeError"
            /\ UNCHANGED <<run, allvminfo>>
       ELSE /\ status' = status
            /\ run' = [run EXCEPT !.pc = "createVM", !.built = TRUE,
                                  !.conn = (build = "ProxmoxUbuntuCloud")]
            /\ allvminfo' = IF build = "ProxmoxUbuntuCloud" THEN pve ELSE allvminfo
    /\ last' = [NoOp EXCEPT !.op = "getBuild",
                            !.logs = IF build = "ProxmoxUbuntuCloud" /\ "vm_type" \in run.given
                                     THEN {FetchLog} ELSE {}]
    /\ UNCHANGED <<poll, argVars, defined, active, volumes, paths, snapshot_age, pve,
                   cluster_index, vm_hostname, calls, result, nops>>

\* The index the loop of createVM takes next.
NextIndex == IF run.pc = "createVM" THEN DefaultClusterIndex(build) ELSE cluster_index + 1

\* createVM: setClusterIndex and setVmHostName for the next index.  A
\* host_name of None is kept as it is for a cluster of one and has no
\* split() for a larger one.
CreateVM_SetIdentity ==
    /\ status = "running"
    /\ StepAfter(run.pc) = "setIdentity"
    /\ NextIndex \in ClusterIndices(build, cluster_size)
    /\ cluster_index' = NextIndex
    /\ IF "host_name" \in run.given
       THEN /\ vm_hostname' = setVmHostName(HostNameArg, NextIndex, cluster_size)
            /\ status' = status
       ELSE IF cluster_size = 1
       THEN /\ vm_hostname' = None
            /\ status' = status
       ELSE /\ vm_hostname' = vm_hostname
            /\ status' = "AttributeError"
    /\ run' = [run EXCEPT !.pc = "identity"]
    /\ last' = [NoOp EXCEPT !.op = "setIdentity", !.ncalls = Len(calls)]
    /\ UNCHANGED <<poll, argVars, worldVars, calls, result, nops>>

CreateVM_Normalize ==
    /\ status = "running"
    /\ StepAfter(run.pc) = "normalizeVMState"
    /\ \E env \in Envs(build), a \in {Args}, w \in {World} :
       \E r \in {normalizeVMState(a, w, env)} :
           /\ Commit(r)
           /\ last' = [Observed("normalizeVMState") EXCEPT !.logs = r.logs]
    /\ run' = [run EXCEPT !.pc = "normalized", !.conn = TRUE]
    /\ UNCHANGED <<poll, argVars, cluster_index, vm_hostname, result, nops>>

CreateVM_CreateDiskImage ==
    /\ status = "running"
    /\ StepAfter(run.pc) = "createDiskImage"
    /\ \E env \in DiskEnvs(build), a \in {Args}, w \in {World} :
       \E r \in {createDiskImage(a, w, env)} :
           /\ Commit(r)
           /\ last' = [Observed("createDiskImage") EXCEPT !.logs = r.logs]
    /\ run' = [run EXCEPT !.pc = "disk"]
    /\ UNCHANGED <<poll, argVars, cluster_index, vm_hostname, result, nops>>

CreateVM_ExecuteVirtInstall ==
    /\ status = "running"
    /\ StepAfter(run.pc) = "executeVirtInstall"
    /\ \E env \in InstallEnvs(build), a \in {Args}, w \in {World} :
       \E r \in {executeVirtInstall(a, w, env)} :
           /\ Commit(r)
           /\ last' = [Observed("executeVirtInstall") EXCEPT !.logs = r.logs]
    /\ run' = [run EXCEPT !.pc = "installed"]
    /\ UNCHANGED <<poll, argVars, cluster_index, vm_hostname, result, nops>>

\* createVM returns once range() is exhausted; main returns and the script
\* ends.
CreateVM_Return ==
    /\ status = "running"
    /\ StepAfter(run.pc) = "setIdentity"
    /\ NextIndex \notin ClusterIndices(build, cluster_size)
    /\ status' = "done"
    /\ run' = [run EXCEPT !.pc = "end"]
    /\ last' = [NoOp EXCEPT !.op = "return", !.ncalls = Len(calls)]
    /\ UNCHANGED <<poll, argVars, worldVars, cluster_index, vm_hostname, calls, result, nops>>

NextRun ==
    \/ Main_ParseArgs
    \/ Main_List
    \/ Main_Verify
    \/ Main_GetBuild
    \/ CreateVM_SetIdentity
    \/ CreateVM_Normalize
    \/ CreateVM_CreateDiskImage
    \/ CreateVM_ExecuteVirtInstall
    \/ CreateVM_Return

SpecRun == InitRun /\ [][NextRun]_vars

\* ------------------------------------------------- checkTaskStatus
\* sleep_time, in seconds.
SleepTime == 10

\* Any task that is no longer running counts as done.
pollNext_anystopped(p, d) ==
    CASE p.pc = "enter" -> [p EXCEPT !.deadline = p.now + p.timeout, !.pc = "check"]
      [] p.pc = "check" -> IF p.now > p.deadline THEN [p EXCEPT !.pc = "exited"]
                           ELSE [p EXCEPT !.pc = "get"]
      [] p.pc = "get" ->
            LET q == [p EXCEPT !.now = @ + d, !.polls = @ + 1] IN
            IF p.task = "running" THEN [q EXCEPT !.pc = "sleep"]
            ELSE [q EXCEPT !.pc = "returned"]
      [] p.pc = "sleep" -> [p EXCEPT !.now = @ + SleepTime, !.pc = "check"]
      [] OTHER -> p

pollNext_nodeadline(p, d) ==
    CASE p.pc = "enter" -> [p EXCEPT !.deadline = p.now + p.timeout, !.pc = "check"]
      [] p.pc = "check" -> [p EXCEPT !.pc = "get"]
      [] p.pc = "get" ->
            LET q == [p EXCEPT !.now = @ + d, !.polls = @ + 1] IN
            IF p.task = "running" THEN [q EXCEPT !.pc = "sleep"]
            ELSE IF p.task = "stopped:OK" THEN [q EXCEPT !.pc = "returned"]
            ELSE [q EXCEPT !.pc = "exited"]
      [] p.pc = "sleep" -> [p EXCEPT !.now = @ + SleepTime, !.pc = "check"]
      [] OTHER -> p

\* One step of checkTaskStatus from position p.pc; d is the time the status
\* request takes.  "enter": the deadline is computed; "check": the test at
\* the top of the loop; "get": the status request and the branches on its
\* answer; "sleep": time.sleep(sleep_time) and continue.
pollNext(p, d) ==
    CASE p.pc = "enter" -> [p EXCEPT !.deadline = p.now + p.timeout, !.pc = "check"]
      [] p.pc = "check" -> IF p.now > p.deadline THEN [p EXCEPT !.pc = "exited"]
                           ELSE [p EXCEPT !.pc = "get"]
      [] p.pc = "get" ->
            LET q == [p EXCEPT !.now = @ + d, !.polls = @ + 1] IN
            IF p.task = "running" THEN [q EXCEPT !.pc = "sleep"]
            ELSE IF p.task = "stopped:OK" THEN [q EXCEPT !.pc = "returned"]
            ELSE [q EXCEPT !.pc = "exited"]
      [] p.pc = "sleep" -> [p EXCEPT !.now = @ + SleepTime, !.pc = "check"]
      [] OTHER -> p

\* A process entering checkTaskStatus for a task of the cluster, with any
\* timeout_secs up to MaxTimeout; the task may already have stopped.
InitPoll ==
    /\ build = "ProxmoxUbuntuCloud"
    /\ dry_run = FALSE
    /\ deleteifexists = TRUE
    /\ cluster_size = 1
    /\ cluster_index = DefaultClusterIndex(build)
    /\ vm_hostname = HostNameArg
    /\ ip_address = None /\ netmask = None /\ gateway = None /\ nameserver = None
    /\ defined = {} /\ active = {} /\ volumes = {} /\ paths = {}
    /\ snapshot_age = "absent"
    /\ pve = <<>> /\ allvminfo = <<>>
    /\ calls = <<>>
    /\ status = "running"
    /\ last = NoOp
    /\ result = NoResult
    /\ nops = 0
    /\ run = InCreateVM
    /\ poll \in {[pc |-> "enter", now |-> 0, timeout |-> t, deadline |-> 0, task |-> k,
                  polls |-> 0] :
                   t \in 0..MaxTimeout, k \in {"running", "stopped:OK", "stopped:failed"}}

\* A step of the polling process; sys.exit(1) ends the process.
PollStep(pc) ==
    /\ status = "running"
    /\ poll.pc = pc
    /\ \E d \in (IF pc = "get" THEN 0..MaxLatency ELSE {0}) : poll' = pollNext(poll, d)
    /\ status' = IF poll'.pc = "exited" THEN "exit1" ELSE status
    /\ UNCHANGED <<argVars, worldVars, cluster_index, vm_hostname, calls, last, result,
                   nops, run>>

Poll_Enter == PollStep("enter")
Poll_CheckDeadline == PollStep("check")
Poll_GetStatus == PollStep("get")
Poll_Sleep == PollStep("sleep")

\* The backend: a running task may stop at any moment, or never.
TaskStops ==
    /\ poll.task = "running"
    /\ poll.pc \notin {"returned", "exited", "idle"}
    /\ \E k \in {"stopped:OK", "stopped:failed"} : poll' = [poll EXCEPT !.task = k]
    /\ UNCHANGED <<argVars, worldVars, cluster_index, vm_hostname, calls, status, last,
                   result, nops, run>>

Polling == Poll_Enter \/ Poll_CheckDeadline \/ Poll_GetStatus \/ Poll_Sleep

NextPoll == Poll_Enter \/ Poll_CheckDeadline \/ Poll_GetStatus \/ Poll_Sleep \/ TaskStops

SpecPoll == InitPoll /\ [][NextPoll]_vars

\* The process is a single thread that is never blocked: sleep and the
\* status request return, so the step it is at is eventually taken.
SpecPollFair == InitPoll /\ [][NextPoll]_vars /\ WF_vars(Polling)

\* ------------------------------------------------- normalization claims
\* The calls of the operation just performed are calls[last.ncalls + 1 ..].
ThisCalls == (last.ncalls + 1)..Len(calls)

TeardownCalls == {"destroy", "undefine", "vol-delete", "rmtree", "pve-stop", "pve-delete"}

NoTeardown == \A i \in ThisCalls : calls[i].call \notin TeardownCalls

Normalized == last.op = "normalizeVMState"

Aborted == status # "running"

\* C1: in a live run with deleteifexists false, when a VM or a disk volume of
\* the instance's name exists, normalizeVMState aborts and issues no
\* destroy, undefine, volume delete or directory removal, for every VM type.
C1_AbortsWithoutMutation ==
    (Normalized /\ ~dry_run /\ ~deleteifexists
       /\ (last.definedBefore # {} \/ last.volExisted))
    => (Aborted /\ NoTeardown)

\* What a live run decides in the present world, every task and tool
\* succeeding.
LiveAborts ==
    normalizeVMState([Args EXCEPT !.dry_run = FALSE], World, AllOK).status # "running"

\* C2: a dry-run normalizeVMState, which leaves the world as it found it,
\* ends Aborted exactly when the live normalizeVMState on that world does.
C2_DryRunDecidesAsLive ==
    (Normalized /\ dry_run) => (Aborted <=> LiveAborts)

\* C3: in a dry run with deleteifexists true, when a VM, volume or per-VM
\* directory of the instance's name exists, normalizeVMState logs the
\* deletion it would perform, issues no call at all and deletes nothing.
C3_DryRunDeletesNothing ==
    (Normalized /\ dry_run /\ deleteifexists
       /\ (last.definedBefore # {} \/ last.volExisted \/ last.dirExisted))
    => /\ Len(calls) = last.ncalls
       /\ ~Aborted
       /\ (build \in LibvirtBuilds /\ last.definedBefore # {})
             => ("DRY RUN: VM would have been deleted" \in last.logs
                   /\ last.definedBefore \subseteq defined)
       /\ (build = "ProxmoxUbuntuCloud" /\ last.definedBefore # {})
             => ("DRY RUN: Would have stopped, and deleted VM" \in last.logs
                   /\ \E i \in 1..Len(pve) : pve[i].name = last.name)
       /\ last.volExisted
             => ("DRY RUN: Disk image not actually deleted" \in last.logs
                   /\ getVmDiskImageName(vm_hostname) \in volumes)
       /\ (build = "UbuntuCloud" /\ last.dirExisted)
             => ("DRY RUN: Would have deleted VM data directory" \in last.logs
                   /\ getVmDirectory(vm_hostname) \in paths)
       /\ (build = "CoreOS" /\ last.dirExisted)
             => ("DRY RUN: Would have removed cloud config path" \in last.logs
                   /\ getCloudConfigDir(vm_hostname) \in paths)

C3_Witness ==
    /\ Normalized /\ dry_run /\ deleteifexists
    /\ last.definedBefore # {} /\ last.volExisted
    /\ "DRY RUN: Disk image not actually deleted" \in last.logs
    /\ calls = <<>>

\* C4: when neither a VM nor a disk volume of the instance's name exists,
\* normalizeVMState issues no destroy, undefine, stop or removal and does not
\* abort (a failing image tool aside), whatever deleteifexists is.
C4_NothingExistsIsNoOp ==
    (Normalized /\ last.definedBefore = {} /\ ~last.volExisted)
    => (NoTeardown /\ status \in {"running", "CalledProcessError"})

\* C5: a live normalizeVMState with deleteifexists true that follows a
\* normalizeVMState which deleted the VM or volume of the same name ends
\* Clean and issues no stop, destroy, undefine or delete of a VM or volume.
C5_SecondNormalizeIsClean ==
    (Normalized /\ ~dry_run /\ deleteifexists
       /\ cluster_index = DefaultClusterIndex(build)
       /\ \E i \in 1..last.ncalls : calls[i].call \in {"undefine", "vol-delete", "pve-delete"})
    => /\ ~Aborted
       /\ \A i \in ThisCalls :
            calls[i].call \notin {"destroy", "undefine", "vol-delete", "pve-stop", "pve-delete"}

Rank(c) ==
    CASE c.call \in {"destroy", "pve-stop"} -> 1
      [] c.call \in {"undefine", "pve-delete"} -> 2
      [] OTHER -> 3

\* The order of a deletion: stop, then undefine/delete, then volume and
\* directories; libvirt stops exactly the active VM; nothing of the VM's
\* storage goes before the VM is undefined.
DeletionOrder ==
    /\ \A i, j \in ThisCalls :
         (i < j /\ calls[i].call \in TeardownCalls /\ calls[j].call \in TeardownCalls)
           => Rank(calls[i]) <= Rank(calls[j])
    /\ \A j \in ThisCalls :
         (calls[j].call = "undefine" /\ calls[j].target \in last.activeBefore)
           => \E i \in ThisCalls :
                 i < j /\ calls[i].call = "destroy" /\ calls[i].target = calls[j].target
    /\ \A i \in ThisCalls : calls[i].call = "destroy" => calls[i].target \in last.activeBefore
    /\ \A j \in ThisCalls :
         (calls[j].call \in {"vol-delete", "rmtree"} /\ last.definedBefore # {})
           => \E i \in ThisCalls : i < j /\ calls[i].call = "undefine"
    /\ \A j \in ThisCalls :
         calls[j].call = "pve-delete"
           => \E i \in ThisCalls :
                 i < j /\ calls[i].call = "pve-stop" /\ calls[i].target = calls[j].target

\* C6 (as stated): a live deletion with deleteifexists true stops the VM only
\* if it is active, then undefines or deletes it, then deletes its volume or
\* data directory.
C6_StopsOnlyIfActive ==
    (Normalized /\ ~dry_run /\ deleteifexists)
    => /\ DeletionOrder
       /\ \A i \in ThisCalls :
            calls[i].call = "pve-stop" => calls[i].target \in last.activeBefore

\* C6 (amended): a live deletion with deleteifexists true issues stop, then
\* undefine/delete, then volume and directory removal, in that order; the
\* libvirt builders stop the VM only if it is active and never undefine an
\* active VM unstopped; the Proxmox builder stops the guest whatever its
\* status.
C6_DeletionOrder ==
    (Normalized /\ ~dry_run /\ deleteifexists) => DeletionOrder

C6_Witness ==
    /\ Normalized /\ ~dry_run /\ deleteifexists
    /\ build = "Debian"
    /\ Len(calls) = 3
    /\ calls[1].call = "destroy" /\ calls[2].call = "undefine" /\ calls[3].call = "vol-delete"

\* ------------------------------------------------- address claims
\* The usable hosts of the network holding v with prefix p, as a set.
UsableHosts(v, p) ==
    LET size == 2 ^ (32 - p)
        net == v - (v % size)
    IN IF p >= 31 THEN net..(net + size - 1) ELSE (net + 1)..(net + size - 2)

\* The number of usable hosts below h: its position in ascending order.
Position(h, U) == Cardinality({x \in U : x < h})

BaseIsUsableHost ==
    /\ ip_address # None
    /\ ParseIPv4(ip_address) # -1
    /\ PrefixOfMask(netmask) # -1
    /\ ParseIPv4(ip_address) \in UsableHosts(ParseIPv4(ip_address), PrefixOfMask(netmask))

BaseHosts == UsableHosts(ParseIPv4(ip_address), PrefixOfMask(netmask))

Planned == last.op = "getIPAddress"

\* C7: for cluster_size > 1 and a base address that is a usable host, the
\* k-th instance gets the host at position offset(base) + k of the ascending
\* usable hosts; every address returned is the base address plus k.
C7_KthHostFromBase ==
    (Planned /\ cluster_size > 1 /\ BaseIsUsableHost)
    => /\ \A h \in BaseHosts :
            Position(h, BaseHosts)
              = Position(ParseIPv4(ip_address), BaseHosts) + InstanceOrdinal(build, cluster_index)
            => result = Ret("text", exploded(h))
       /\ result.kind = "text"
            => ParseIPv4(result.val)
                 = ParseIPv4(ip_address) + InstanceOrdinal(build, cluster_index)

C7_Witness ==
    /\ Planned /\ cluster_size > 1
    /\ ip_address = exploded(Net0 + 5) /\ netmask = Mask29
    /\ InstanceOrdinal(build, cluster_index) = 1
    /\ result = Ret("text", exploded(Net0 + 6))

\* C8: for cluster_size 1 and a given base address, getIPAddress returns the
\* ip_address argument as it was given, whatever the netmask.
C8_SingleReturnsBase ==
    (Planned /\ cluster_size = 1 /\ ip_address # None)
    => result = Ret("text", ip_address)

C8_Witness ==
    /\ Planned /\ cluster_size = 1
    /\ ip_address = padded(Net0 + MaxAddr) /\ netmask = Mask30
    /\ result = Ret("text", padded(Net0 + MaxAddr))

\* C9: for cluster_size > 1, getIPAddress raises when offset(base) + k is
\* past the last usable host, and an address it returns is a usable host of
\* the subnet.
C9_RaisesPastLastHost ==
    /\ (Planned /\ cluster_size > 1 /\ BaseIsUsableHost
          /\ Position(ParseIPv4(ip_address), BaseHosts)
               + InstanceOrdinal(build, cluster_index) >= Cardinality(BaseHosts))
       => result.kind = "error"
    /\ (Planned /\ cluster_size > 1 /\ result.kind = "text")
       => (BaseIsUsableHost /\ ParseIPv4(result.val) \in BaseHosts)

C9_Witness ==
    /\ Planned /\ cluster_size > 1
    /\ ip_address = exploded(Net0 + 6) /\ netmask = Mask29
    /\ InstanceOrdinal(build, cluster_index) = 1
    /\ result = Ret("error", IndexError)

\* C10: with no ip_address argument getIPAddress returns None for every
\* cluster size and index, the Debian composer returns an empty dict and the
\* Proxmox composer returns the DHCP ipconfig string.
C10_NoAddressMeansDhcp ==
    ip_address = None
    => /\ Planned => result = Ret("None", None)
       /\ last.op = "getNetworkExtraArgs" => result = Ret("dict", <<>>)
       /\ last.op = "getNetworkConfig" => result = Ret("text", DhcpIpConfig)

C10_Witness ==
    /\ ip_address = None /\ cluster_size > 1
    /\ last.op = "getNetworkConfig"
    /\ result = Ret("text", DhcpIpConfig)

\* ------------------------------------------------- prefix length claims
\* Bit j (1 the most significant) of the 32 bits of four octets.
Bit(o, j) == (o[((j - 1) \div 8) + 1] \div (2 ^ (7 - ((j - 1) % 8)))) % 2

\* Four octets in range whose one bits all precede their zero bits.
IsNetmask(o) ==
    /\ o # <<>>
    /\ \A j \in 1..31 : Bit(o, j) = 0 => Bit(o, j + 1) = 0

\* C11: for every valid dotted-quad netmask and every valid ip, getPrefixLength
\* returns the number of leading one bits of the mask, whatever the ip; for
\* 192.168.1.10 and 255.255.255.0 it returns 24.
C11_PrefixIsLeadingOnes ==
    (last.op = "getPrefixLength" /\ ParseOctets(ip_address) # <<>>)
    => /\ IsNetmask(ParseOctets(netmask))
            => result = Ret("int", Cardinality({j \in 1..32 : Bit(ParseOctets(netmask), j) = 1}))
       /\ (ip_address = DottedQuad(<<192, 168, 1, 10>>)
             /\ netmask = DottedQuad(<<255, 255, 255, 0>>))
            => result = Ret("int", 24)

C11_Witness ==
    /\ last.op = "getPrefixLength"
    /\ ip_address = DottedQuad(<<192, 168, 1, 10>>)
    /\ netmask = DottedQuad(<<255, 255, 255, 0>>)
    /\ result = Ret("int", 24)



\* ------------------------------------------------- startup claims
\* Some static-network argument is given, but not all of ip_address,
\* netmask and gateway.
PartialStaticNetwork ==
    /\ AnySet(<<ip_address, nameserver, gateway, netmask>>)
    /\ ~AllSet(<<ip_address, netmask, gateway>>)

\* C12: once the command line with a partial static-network configuration
\* has been parsed, the process has ended with the handled configuration
\* error and exit status 1, at the parsing step: no connection was opened,
\* no builder object was created and no call was issued.
C12_PartialStaticNetworkIsFatal ==
    (run.pc # "start" /\ PartialStaticNetwork) =>
        /\ status = "HandledException"
        /\ ExitCode(status) # 0
        /\ run.pc = "parsed"
        /\ ~run.conn
        /\ ~run.built
        /\ calls = <<>>

C12_Witness ==
    /\ run.pc = "parsed"
    /\ ip_address # None
    /\ netmask # None
    /\ gateway = None
    /\ status = "HandledException"


\* The steps of createVM's loop.
LoopSteps == {"setIdentity", "normalizeVMState", "createDiskImage", "executeVirtInstall"}

\* C13: a create_vm run with a critical argument missing, once past
\* verifyMinimumCreateVMArgs, has been ended there by the handled fatal
\* error: createVM was not started, no step of the loop ran and no call
\* was issued.
C13_MissingCriticalArgIsFatal ==
    (/\ run.command = "create_vm"
     /\ run.given # CriticalArgs
     /\ run.pc \notin {"start", "parsed"}) =>
        /\ status = "HandledException"
        /\ run.pc = "verified"
        /\ last.op \notin LoopSteps
        /\ calls = <<>>


\* ------------------------------------------------- cluster loop claims
\* C14: every step of createVM directly follows its predecessor: the
\* identity of the first index follows getBuild and the identity of index
\* k+1 follows the install of index k; normalization follows the identity,
\* disk creation follows normalization and the install follows disk
\* creation, each for the index the identity was set to.
C14_StrictlySequential ==
    [][/\ last'.op = "setIdentity" =>
            \/ /\ last.op = "getBuild"
               /\ InstanceOrdinal(build, cluster_index') = 0
            \/ /\ last.op = "executeVirtInstall"
               /\ cluster_index' = cluster_index + 1
       /\ last'.op = "normalizeVMState" =>
            last.op = "setIdentity" /\ cluster_index' = cluster_index
       /\ last'.op = "createDiskImage" =>
            last.op = "normalizeVMState" /\ cluster_index' = cluster_index
       /\ last'.op = "executeVirtInstall" =>
            last.op = "createDiskImage" /\ cluster_index' = cluster_index]_vars

\* The second instance of a cluster has been installed.
C14_Witness ==
    /\ last.op = "executeVirtInstall"
    /\ InstanceOrdinal(build, cluster_index) = 1
    /\ status = "running"


\* How a create_vm process can have ended.
Done == status = "done"
Ended == status # "running"
RunAborted == status \notin {"running", "done"}

CreateCalls == {"vol-create-as", "qemu-img create", "pool-refresh", "vol-upload",
                "virt-install", "virsh define", "virsh start",
                "pve-clone", "pve-resize", "pve-config", "pve-start"}

\* Some call that tears a resource down follows a call that created the
\* same resource.
TornDownAfterCreation ==
    \E i, j \in 1..Len(calls) :
        /\ i < j
        /\ calls[i].call \in CreateCalls
        /\ calls[j].call \in TeardownCalls
        /\ \/ calls[j].target = calls[i].target
           \/ calls[j].target \o <<".qcow2">> = calls[i].target
           \/ calls[j].target = calls[i].target \o <<".qcow2">>

\* C16: in an aborted run no stop, undefine or delete call was issued
\* against a VM or volume that an earlier call of the same run created, and
\* the aborted process issues no call at all afterwards.
C16_AbortLeavesEarlierInstances ==
    [][/\ RunAborted' => ~TornDownAfterCreation'
       /\ RunAborted => calls' = calls]_vars

\* A run aborted at its second instance, after calls created the first and
\* the normalization of the second tore down what an earlier run had left.
C16_Witness ==
    /\ RunAborted
    /\ InstanceOrdinal(build, cluster_index) = 1
    /\ \E i, j \in 1..Len(calls) :
          /\ i < j
          /\ calls[i].call \in {"virt-install", "pve-start"}
          /\ calls[j].call \in TeardownCalls


\* ------------------------------------------------- tool failure claims
\* What is logged or shown when an external tool exits non-zero.
ToolFailureLogs ==
    {NonZeroExit,
     "ERROR: Error in creating disk image",
     "CRITICAL: Error in creating disk image",
     "CRITICAL: Error in creating image",
     "ERROR: Error in creating Ignition Config",
     "ERROR: Error while loading VM into libvirt"}

\* C17: a step in which an external tool exited non-zero has aborted the
\* run, so no later step of the index and no later index runs.
C17_ToolFailureIsFatal ==
    (last.logs \cap ToolFailureLogs # {}) => RunAborted


\* ------------------------------------------------- identity claims
\* The host name the convention gives the current index.
ExpectedHostName ==
    IF cluster_size = 1 THEN HostNameArg ELSE HostNameArg \o DecStr(cluster_index)

DiskCreateCalls == {"vol-create-as", "qemu-img create", "pool-refresh", "vol-upload"}

\* C18: inside the loop of createVM, for every orchestrator, the cluster
\* index lies in 0 .. cluster_size - 1, the host name is the base name for a
\* cluster of one and base followed by the index otherwise, the VM name is
\* hostname.domain and the disk image is named after it with ".qcow2".
C18_ZeroBasedIdentity ==
    (/\ run.pc \in {"identity", "normalized", "disk", "installed"}
     /\ "host_name" \in run.given
     /\ ~RunAborted) =>
        /\ cluster_index \in 0..(cluster_size - 1)
        /\ vm_hostname = ExpectedHostName
        /\ last.op \in LoopSteps \ {"setIdentity"} =>
              last.name = ExpectedHostName \o <<".">> \o DomainNameArg
        /\ \A i \in ThisCalls :
              calls[i].call \in DiskCreateCalls =>
                 calls[i].target = ExpectedHostName \o <<".">> \o DomainNameArg \o <<".qcow2">>


\* ------------------------------------------------- polling claims
PollEnded == poll.pc \in {"returned", "exited"}

\* C19: checkTaskStatus returns to its caller only on a status request that
\* found the task stopped with exit status OK; after a request that found
\* the task running it sleeps exactly SleepTime seconds and tests the
\* deadline again before any further request; a test that finds the
\* deadline passed ends the process with exit status 1; and the loop always
\* ends, by a return or by the end of the process.
C19_PollingTerminates ==
    /\ [][/\ poll'.pc = "returned" => (poll.pc = "get" /\ poll.task = "stopped:OK")
          /\ (poll.pc = "get" /\ poll.task = "running" /\ poll'.pc # "get") =>
                poll'.pc = "sleep"
          /\ poll.pc = "sleep" =>
                (poll'.pc \in {"sleep", "check"} /\ poll'.now \in {poll.now, poll.now + SleepTime}
                 /\ (poll'.pc = "check" <=> poll'.now = poll.now + SleepTime))
          /\ (poll.pc = "check" /\ poll.now > poll.deadline /\ poll'.pc # "check") =>
                (poll'.pc = "exited" /\ status' = "exit1")
          /\ poll'.pc = "exited" => status' = "exit1"]_vars
    /\ <>PollEnded
    /\ [](PollEnded => poll.now <= poll.deadline + SleepTime + MaxLatency)

\* The task never left the running state: it was polled more than once and
\* the process was ended after the deadline.
C19_Witness ==
    /\ poll.pc = "exited"
    /\ poll.task = "running"
    /\ poll.polls >= 3
    /\ poll.now > poll.deadline
    /\ status = "exit1"


\* ------------------------------------------------- Proxmox install claims
InstallCalls == {"pve-clone", "pve-resize", "pve-config", "pve-start"}

\* The requested template is not among the template guests of the node.
TemplateMissing == TemplateIds([allvminfo |-> allvminfo], TemplateName) = {}

\* C20: an executeVirtInstall of the Proxmox builder that did not find the
\* requested template among the template guests of the target node has
\* ended the process with exit status 1 and issued no clone, resize, config
\* or start call.
C20_MissingTemplateIsFatal ==
    (/\ build = "ProxmoxUbuntuCloud"
     /\ last.op = "executeVirtInstall"
     /\ TemplateMissing) =>
        /\ status = "exit1"
        /\ ExitCode(status) = 1
        /\ \A i \in ThisCalls : calls[i].call \notin InstallCalls

\* A live install that found the template only on the other node.
C20_Witness ==
    /\ build = "ProxmoxUbuntuCloud"
    /\ last.op = "executeVirtInstall"
    /\ ~dry_run
    /\ TemplateMissing
    /\ \E i \in 1..Len(allvminfo) : allvminfo[i].template /\ allvminfo[i].node # NodeName
    /\ status = "exit1"


\* ------------------------------------------------- missing input claims
\* C21: when executeVirtInstall of the Proxmox builder ends the process
\* because the requested template is missing, the run has issued no
\* mutating call to the backend: no stop or delete by normalizeVMState
\* precedes the detection.
C21_MissingInputBeforeMutation ==
    (/\ build = "ProxmoxUbuntuCloud"
     /\ last.op = "executeVirtInstall"
     /\ TemplateMissing
     /\ status = "exit1") =>
        calls = <<>>


\* The order in which a live install addresses the backend.
InstallOrder == <<"pve-clone", "pve-resize", "pve-config", "pve-start">>

\* The names of the calls the last operation issued, in order.
ThisCallNames == [i \in 1..(Len(calls) - last.ncalls) |-> calls[last.ncalls + i].call]

\* C22: the calls of a live Proxmox install are an initial part of clone,
\* resize, config, start, in that order; anything after the clone was
\* issued only once the wait for the clone task saw it stopped with exit
\* status OK, and a clone task that failed or timed out ended the process
\* with the clone as its only call.
C22_InstallCallOrder ==
    (/\ build = "ProxmoxUbuntuCloud"
     /\ last.op = "executeVirtInstall"
     /\ ~dry_run) =>
        /\ Len(ThisCallNames) <= Len(InstallOrder)
        /\ ThisCallNames = SubSeq(InstallOrder, 1, Len(ThisCallNames))
        /\ Len(ThisCallNames) > 1 => "Task exited OK" \in last.logs
        /\ (Len(ThisCallNames) >= 1 /\ "Task exited OK" \notin last.logs) =>
              (ThisCallNames = <<"pve-clone">> /\ status = "exit1")

\* A live install that went through all four calls.
C22_Witness ==
    /\ build = "ProxmoxUbuntuCloud"
    /\ last.op = "executeVirtInstall"
    /\ ~dry_run
    /\ ThisCallNames = InstallOrder
    /\ status = "running"


\* ------------------------------------------------- virt-install flags
\* args.disk_pool_name and a valid args.mac_address
getDiskPoolName == <<"default">>
MacAddressArg == <<"52:54:00:00:00:01">>

\* A dict entry of flags: the key, whether the value is a list, and the
\* value(s), each a text.  A dict is the sequence of its entries in
\* insertion order, the order items() iterates.
Flag(flag, values) == [flag |-> flag, list |-> FALSE, values |-> <<values>>]
FlagList(flag, values) == [flag |-> flag, list |-> TRUE, values |-> values]

DictKeys(d) == {d[i].flag : i \in 1..Len(d)}

\* d.update({e.flag: ...}): an existing key keeps its place and takes the
\* new value, a new key goes to the end.
DictSet(d, e) ==
    IF e.flag \in DictKeys(d)
    THEN [i \in 1..Len(d) |-> IF d[i].flag = e.flag THEN e ELSE d[i]]
    ELSE Append(d, e)

RECURSIVE DictUpdate(_, _)
DictUpdate(d, u) == IF u = <<>> THEN d ELSE DictUpdate(DictSet(d, Head(u)), Tail(u))

DictGet(d, flag) == (CHOOSE i \in 1..Len(d) : d[i].flag = flag)

\* getVirtInstallCustomFlags of the build
getVirtInstallCustomFlags(a) ==
    CASE a.build = "UbuntuCloud" ->
           << FlagList("disk",
                 << <<"vol=">> \o getDiskPoolName \o <<"/">> \o getVmDiskImageName(a.hostname)
                        \o <<",cache=none,bus=virtio">>,
                    getVmSeedImagePath(a.hostname) \o <<",cache=none,bus=virtio">> >>),
              Flag("boot", <<"hd">>) >>
      [] a.build = "CoreOS" ->
           << Flag("os-variant", <<"virtio26">>), Flag("import", <<>>),
              Flag("print-xml", <<>>) >>
      [] a.build \in {"Debian", "Ubuntu"} -> << Flag("location", <<"getDistLocation">>) >>
      [] OTHER -> <<>>

\* The flags dict of vmtypes.VMBuilder.executeVirtInstall before it is
\* emitted.  The base disk entry formats the bound method
\* getVmDiskImageName itself.
virtInstallFlags(a, use_uefi, mac_address) ==
    LET base == << Flag("connect", <<"qemu+ssh://", "vm_host", "/system">>),
                   FlagList("disk", << <<"vol=">> \o getDiskPoolName
                                        \o <<"/", "<bound method getVmDiskImageName>",
                                             ",cache=none">> >>),
                   Flag("name", getVmName(a.hostname)),
                   Flag("network", <<"bridge=", "bridge_interface", ",model=virtio">>),
                   Flag("os-type", <<"linux">>),
                   Flag("ram", <<"ram">>),
                   Flag("vcpus", <<"vcpus">>) >>
        uefi == IF use_uefi THEN DictSet(base, Flag("boot", <<"uefi">>)) ELSE base
        custom == DictUpdate(uefi, getVirtInstallCustomFlags(a))
    IN IF mac_address = None THEN custom
       ELSE DictSet(custom, Flag("network",
                custom[DictGet(custom, "network")].values[1] \o <<",mac=">> \o mac_address))

\* "--%s" % flag
Dashed(flag) == <<"--", flag>>

\* One occurrence only, whatever the number of values.
emitFlag_first(e) == <<Dashed(e.flag), e.values[1]>>

\* for x in range(0, len(values)): extend(["--%s" % flag, str(values[x])])
RECURSIVE emitValues(_, _)
emitValues(flag, values) ==
    IF values = <<>> THEN <<>>
    ELSE <<Dashed(flag), Head(values)>> \o emitValues(flag, Tail(values))

\* The body of the loop over flags.items() for one entry.
emitFlag(e) ==
    IF e.list /\ Len(e.values) > 1 THEN emitValues(e.flag, e.values)
    ELSE <<Dashed(e.flag), e.values[1]>>

RECURSIVE emitFlags(_)
emitFlags(flags) == IF flags = <<>> THEN <<>>
                    ELSE emitFlag(Head(flags)) \o emitFlags(Tail(flags))

\* command_line as executeVirtInstall has it when it joins it.
virtInstallCommandLine(a, debug, flags) ==
    << <<"/usr/bin/virt-install">>, <<"--autostart">>, <<"--nographics">>,
       <<"--console pty,target_type=serial">> >>
    \o (IF debug THEN << <<"--debug">> >> ELSE <<>>)
    \o (IF a.cluster_size > 1 THEN << <<"--noautoconsole">> >> ELSE <<>>)
    \o emitFlags(flags)

\* The builds whose executeVirtInstall is vmtypes.VMBuilder's.
VirtInstallBuilds == {"Debian", "Ubuntu", "UbuntuCloud", "CoreOS"}

InitFlags ==
    /\ InitCommon
    /\ build \in VirtInstallBuilds
    /\ ip_address = None /\ netmask = None /\ gateway = None /\ nameserver = None
    /\ defined = {} /\ active = {} /\ volumes = {} /\ paths = {}
    /\ snapshot_age = "absent"
    /\ pve = <<>> /\ allvminfo = <<>>
    /\ run = InCreateVM

\* executeVirtInstall up to str_command_line: the flags and the command
\* line composed from them.  Debian and Ubuntu end in
\* getVirtInstallExtraArgs before anything is emitted.
ComposeCommandLine ==
    \E a \in {Args} : \E use_uefi, debug \in BOOLEAN : \E mac_address \in {None, MacAddressArg} :
        \E flags \in {virtInstallFlags(a, use_uefi, mac_address)} :
            Query("executeVirtInstall",
                  IF a.build \in {"Debian", "Ubuntu"}
                  THEN Ret("error", <<"AttributeError">>)
                  ELSE Ret("command_line",
                           [flags |-> flags,
                            command_line |-> virtInstallCommandLine(a, debug, flags),
                            str_command_line |->
                                JoinSpace(virtInstallCommandLine(a, debug, flags))]))

NextFlags == SetIdentity \/ ComposeCommandLine

SpecFlags == InitFlags /\ [][NextFlags]_vars

\* ------------------------------------------------- flag claims
\* The values that follow the occurrences of --flag in a command line.
RECURSIVE ValuesOf(_, _)
ValuesOf(cl, flag) ==
    IF Len(cl) < 2 THEN <<>>
    ELSE IF Head(cl) = Dashed(flag) THEN <<cl[2]>> \o ValuesOf(Tail(Tail(cl)), flag)
    ELSE ValuesOf(Tail(cl), flag)

\* C23: every flag of the composed dict is emitted as one --flag
\* occurrence per value, in the order of its values; for UbuntuCloud the
\* --disk occurrences are the boot volume of the instance and then its
\* seed image, and nothing else.
C23_OneOccurrencePerValueInOrder ==
    (last.op = "executeVirtInstall" /\ result.kind = "command_line") =>
        /\ \A i \in 1..Len(result.val.flags) :
              ValuesOf(result.val.command_line, result.val.flags[i].flag)
                  = result.val.flags[i].values
        /\ build = "UbuntuCloud" =>
              ValuesOf(result.val.command_line, "disk") =
                  << <<"vol=">> \o getDiskPoolName \o <<"/">> \o getVmDiskImageName(vm_hostname)
                         \o <<",cache=none,bus=virtio">>,
                     getVmSeedImagePath(vm_hostname) \o <<",cache=none,bus=virtio">> >>

C23_Witness ==
    /\ last.op = "executeVirtInstall"
    /\ result.kind = "command_line" /\ build = "UbuntuCloud" /\ cluster_size > 1
    /\ Len(ValuesOf(result.val.command_line, "disk")) = 2
    /\ cluster_index > DefaultClusterIndex(build)


\* ------------------------------------------------- shared resources
\* The operations of createVM's loop, which all follow the constructor.
LoopOps == {"normalizeVMState", "createDiskImage", "executeVirtInstall"}

\* C24: the Proxmox index of all guests is fetched from the backend at
\* most once per run: the constructor of the builder has fetched it, so no
\* operation of createVM's loop fetches it again.
C24_IndexFetchedOnce ==
    (build = "ProxmoxUbuntuCloud" /\ last.op \in LoopOps) => FetchLog \notin last.logs

\* The index is fetched again only while the cluster lists no guest.
C24_RefetchOnlyWhenEmpty ==
    (build = "ProxmoxUbuntuCloud" /\ last.op \in LoopOps /\ FetchLog \in last.logs)
        => (allvminfo = <<>> /\ pve = <<>>)


\* ------------------------------------------------- exit status claims
\* C25: a run that has ended gives the process exit status 0 exactly when
\* it ran to the end of createVM (or of a list command), and a non-zero
\* status whenever an exit or an exception ended it.
C25_ExitStatusReflectsOutcome ==
    Ended => (ExitCode(status) = 0 <=> status = "done")

\* The part that holds: HandledException and sys.exit(1) are the only
\* endings that give a non-zero status.
C25_NonZeroOnlyForHandledOrExit ==
    Ended => (ExitCode(status) # 0 <=> status \in {"HandledException", "exit1"})


\* ------------------------------------------------- dry-run claims
\* Every modelled call changes the backend or the host, except the
\* transpiler reading its input from a pipe and writing to a pipe.
Mutating(c) == ~(c.call = "ct" /\ c.target = <<"stdin">>)

MutatingCallsOfRun == {i \in 1..Len(calls) : Mutating(calls[i])}

\* C26: a dry run of create_vm, for every build and cluster size, issues
\* no call that changes the backend or writes, downloads or removes
\* anything on the host.
C26_DryRunMutatesNothing ==
    dry_run => MutatingCallsOfRun = {}

\* The same for every build but CoreOS.
C26_DryRunMutatesNothingButCoreOS ==
    (dry_run /\ build # "CoreOS") => MutatingCallsOfRun = {}

\* The only mutating call of a CoreOS dry run is the download of the
\* config transpiler.
C26_CoreOSDryRunOnlyDownloads ==
    (dry_run /\ build = "CoreOS") =>
        \A i \in MutatingCallsOfRun : calls[i] = [call |-> "urlretrieve", target |-> CtPath]


\* ------------------------------------------------- static-network set
\* The network arguments given on the command line.
NetworkGiven ==
    {f \in {"ip_address", "nameserver", "gateway", "netmask"} :
        [ip_address |-> ip_address, nameserver |-> nameserver,
         gateway |-> gateway, netmask |-> netmask][f] # None}

\* C27: parseArgs ends the process with the handled configuration error
\* exactly when some but not all of ip_address, nameserver, gateway and
\* netmask are given; the nameserver counts as the fourth member of the
\* set, alone or as the only one missing.
C27_NameserverIsFourthMember ==
    last.op = "parseArgs" =>
        /\ status \in {"running", "HandledException"}
        /\ status = "running" <=> Cardinality(NetworkGiven) \in {0, 4}

C27_Witness ==
    /\ last.op = "parseArgs"
    /\ NetworkGiven = {"ip_address", "gateway", "netmask"}
    /\ status = "HandledException"

C27_WitnessOnlyNameserver ==
    /\ last.op = "parseArgs"
    /\ NetworkGiven = {"nameserver"}
    /\ status = "HandledException"


\* ------------------------------------------------- installer extra-args
\* Ubuntu.getDistroSpecificExtraArgs; BaseVM's returns {}.
getDistroSpecificExtraArgs(a) ==
    IF a.build = "Ubuntu"
    THEN << <<"console-keymaps-at/keymap", <<"American">> >>,
            <<"console-setup/layoutcode", <<"us">> >>,
            <<"keyboard-configuration/layout", <<"USA">> >>,
            <<"keyboard-configuration/variant", <<"US">> >> >>
    ELSE <<>>

\* extra_args of Debian.getVirtInstallExtraArgs as it stands when the loop
\* over it is entered: the fixed keys, then the network and the distro
\* keys (none of which replaces a fixed key).  The hostname is
\* args.host_name.
debianExtraArgs(a, network) ==
    << <<"keyboard-configuration/xkb-keymap", <<"us">> >>,
       <<"console-setup/ask_detect", <<"false">> >>,
       <<"locale", <<"en_US">> >>,
       <<"netcfg/get_domain", DomainNameArg>>,
       <<"netcfg/get_hostname", HostNameArg>>,
       <<"preseed/url", <<"preseed_url">> >> >>
    \o network \o getDistroSpecificExtraArgs(a)

\* Debian.getVirtInstallExtraArgs: the dict is composed and the loop over
\* extra_args.iteritems() raises AttributeError; an error of
\* getNetworkExtraArgs leaves first.  BaseVM returns {}.
getVirtInstallExtraArgs(a) ==
    LET compose(n) ==
          IF n.kind = "error" THEN n
          ELSE Ret("raised", [extra_args |-> debianExtraArgs(a, n.val),
                              error |-> <<"AttributeError">>])
    IN IF a.build \notin {"Debian", "Ubuntu"} THEN Ret("dict", <<>>)
       ELSE Then(getNetworkExtraArgs(a), compose)

\* self.getBuild().getVirtInstallExtraArgs() for the current instance
GetVirtInstallExtraArgs ==
    \E a \in {Args} : Query("getVirtInstallExtraArgs", getVirtInstallExtraArgs(a))

NextExtraArgs == SetIdentity \/ ComposeCommandLine \/ GetVirtInstallExtraArgs

SpecExtraArgs == InitFlags /\ [][NextExtraArgs]_vars

\* The values a dict given as <<key, value>> pairs holds for a key.
ValuesFor(d, key) == {d[i][2] : i \in {j \in 1..Len(d) : d[j][1] = key}}

\* C28: for every instance of a Debian or Ubuntu cluster of more than one,
\* the netcfg/get_hostname parameter composed for the instance is the
\* indexed host name of the instance.
C28_GuestHostnameIsIndexed ==
    (/\ last.op = "getVirtInstallExtraArgs"
     /\ build \in {"Debian", "Ubuntu"}
     /\ cluster_size > 1
     /\ result.kind = "raised") =>
        ValuesFor(result.val.extra_args, "netcfg/get_hostname") = {vm_hostname}

\* What holds instead: every instance is given the base name.
C28_GuestHostnameIsBaseName ==
    (/\ last.op = "getVirtInstallExtraArgs"
     /\ build \in {"Debian", "Ubuntu"}) =>
        /\ result.kind = "raised"
        /\ ValuesFor(result.val.extra_args, "netcfg/get_hostname") = {HostNameArg}


\* ------------------------------------------------- Proxmox duplicates
\* The guests of the cluster that carry the name of the current instance.
SameNameGuests == {i \in 1..Len(pve) : pve[i].name = getVmName(vm_hostname)}

\* C29: after a live ProxmoxUbuntuCloud.normalizeVMState with
\* deleteifexists set has returned normally, the cluster holds no guest
\* with the name of the instance, however many held it before.
C29_NoSameNameGuestRemains ==
    (/\ build = "ProxmoxUbuntuCloud" /\ Normalized /\ ~dry_run /\ deleteifexists
     /\ status = "running") => SameNameGuests = {}

\* What holds instead: exactly one guest of the name, the first of the
\* index, is deleted.
C29_DeletesFirstMatchOnly ==
    (/\ build = "ProxmoxUbuntuCloud" /\ Normalized /\ ~dry_run /\ deleteifexists
     /\ status = "running" /\ last.definedBefore # {}) =>
        Cardinality(SameNameGuests) = Cardinality(last.definedBefore) - 1


\* ------------------------------------------------- task status claims
\* C30: checkTaskStatus has returned to its caller only after a status
\* request, with the task stopped and its exit status OK, never with the
\* task running; once it has ended for a task that stopped with any other
\* exit status, it has ended the process with exit status 1; and no
\* request that finds the task running is followed by a return.
C30_ReturnsOnlyOnStoppedOK ==
    /\ [](poll.pc = "returned" =>
            (poll.task = "stopped:OK" /\ poll.polls >= 1 /\ status = "running"))
    /\ []((PollEnded /\ poll.task = "stopped:failed") =>
            (poll.pc = "exited" /\ status = "exit1" /\ ExitCode(status) = 1))
    /\ [][(poll.pc = "get" /\ poll.task # "stopped:OK") => poll'.pc # "returned"]_vars
    /\ [][(poll.pc = "get" /\ poll.task = "stopped:failed" /\ poll' # poll) =>
              (poll'.pc = "exited" /\ status' = "exit1")]_vars

\* The task was seen running, stopped with OK before the deadline, and the
\* next request returned.
C30_Witness ==
    /\ poll.pc = "returned"
    /\ poll.polls >= 2
    /\ poll.task = "stopped:OK"
    /\ status = "running"

\* The task stopped with a failure after it was seen running.
C30_WitnessFailed ==
    /\ poll.pc = "exited"
    /\ poll.polls >= 2
    /\ poll.task = "stopped:failed"
    /\ poll.now <= poll.deadline

====
